---------------------------- MODULE Spec2Model ----------------------------
(***************************************************************************)
(* Work-time records of sak: the record parser and the period aggregator   *)
(* (pkg/work/record.go) and the periods of the worktime command            *)
(* (cmd/sak/worktime.go).                                                  *)
(*                                                                         *)
(* Representation.  A time.Time is the number of seconds since             *)
(* 1970-01-01 00:00:00 on the wall clock of the one location every value   *)
(* of a run lives in (time.Local, taken with a fixed UTC offset); every    *)
(* time the code builds has nsec = 0.  A time.Duration is a whole number   *)
(* of seconds.  A string is a tuple of one-character strings, so that      *)
(* Split, Fields, Atoi and time.Parse are computed and not assumed.        *)
(***************************************************************************)
EXTENDS Integers, Sequences, FiniteSets, TLC

(***************************************************************************)
(* Bounds of the model.                                                    *)
(***************************************************************************)
\* lines of a CSV file, header included
MaxRows == 3
\* records of a hand-built record list
MaxRecords == 3

(***************************************************************************)
(* Constants of pkg/work/record.go.                                        *)
(***************************************************************************)
afternoonStartHour == 12
earlyEndHour == 17
minWorkHours == 9

\* time.Minute, time.Hour and one day, in seconds
Minute == 60
Hour == 60 * Minute
secondsPerDay == 24 * Hour

\* time.Time{}: the zero time, before every time the model builds; no
\* modelled code path reads its fields
zeroTime == 0 - 2147483647

(***************************************************************************)
(* package time: the calendar.                                             *)
(***************************************************************************)
isLeap(year) == year % 4 = 0 /\ (year % 100 # 0 \/ year % 400 = 0)

\* days before the first of month m (1..12) in a non-leap year
daysBefore(m) ==
  CASE m = 1 -> 0 [] m = 2 -> 31 [] m = 3 -> 59 [] m = 4 -> 90
    [] m = 5 -> 120 [] m = 6 -> 151 [] m = 7 -> 181 [] m = 8 -> 212
    [] m = 9 -> 243 [] m = 10 -> 273 [] m = 11 -> 304 [] m = 12 -> 334

daysIn(m, year) ==
  IF m = 2 THEN (IF isLeap(year) THEN 29 ELSE 28)
  ELSE IF m \in {4, 6, 9, 11} THEN 30 ELSE 31

\* leap years in 1..n
leapsUpTo(n) == (n \div 4) - (n \div 100) + (n \div 400)

\* days from 1970-01-01 to January 1 of year
daysSinceEpoch(year) ==
  365 * (year - 1970) + leapsUpTo(year - 1) - leapsUpTo(1969)

\* norm returns hi, lo such that hi * base + lo is unchanged and 0 <= lo < base
norm(hi, lo, base) == <<hi + (lo \div base), lo % base>>

\* time.Date(year, month, day, hour, min, sec, 0, loc): the values may be
\* outside their usual ranges and are normalized during the conversion
GoDate(year, month, day, hour, min, sec) ==
  LET ym == norm(year, month - 1, 12)
      y  == ym[1]
      m  == ym[2] + 1
      ms == norm(min, sec, 60)
      hm == norm(hour, ms[1], 60)
      dh == norm(day, hm[1], 24)
      d  == daysSinceEpoch(y) + daysBefore(m)
              + (IF isLeap(y) /\ m >= 3 THEN 1 ELSE 0) + (dh[1] - 1)
  IN d * secondsPerDay + dh[2] * Hour + hm[2] * Minute + ms[2]

\* the civil date <<year, month, day>> of a time: the day count is split
\* into 400-year eras, the year of the era, the day of a year that starts
\* on March 1, and the month of that year
civilOfMonth(y, doy, mp) ==
  <<y + (IF mp < 10 THEN 0 ELSE 1),
    IF mp < 10 THEN mp + 3 ELSE mp - 9,
    doy - ((153 * mp + 2) \div 5) + 1>>

civilOfDay(y, doy) == civilOfMonth(y, doy, (5 * doy + 2) \div 153)

civilOfYear(era, doe, yoe) ==
  civilOfDay(yoe + era * 400,
             doe - (365 * yoe + (yoe \div 4) - (yoe \div 100)))

civilOfEra(era, doe) ==
  civilOfYear(era, doe,
              (doe - (doe \div 1460) + (doe \div 36524) - (doe \div 146096)) \div 365)

civilOfDays(z) == civilOfEra(z \div 146097, z % 146097)

civil(t) == civilOfDays((t \div secondsPerDay) + 719468)

\* t.Year(), t.Month(), t.Day()
Year(t) == civil(t)[1]
Month(t) == civil(t)[2]
Day(t) == civil(t)[3]

(***************************************************************************)
(* packages strings and strconv.                                           *)
(***************************************************************************)
Digits == {"0", "1", "2", "3", "4", "5", "6", "7", "8", "9"}

digitVal(c) ==
  CASE c = "0" -> 0 [] c = "1" -> 1 [] c = "2" -> 2 [] c = "3" -> 3
    [] c = "4" -> 4 [] c = "5" -> 5 [] c = "6" -> 6 [] c = "7" -> 7
    [] c = "8" -> 8 [] c = "9" -> 9

RECURSIVE decimal(_)
\* the value of a non-empty string of digits
decimal(s) ==
  IF Len(s) = 1 THEN digitVal(s[1])
  ELSE 10 * decimal(SubSeq(s, 1, Len(s) - 1)) + digitVal(s[Len(s)])

\* strconv.Atoi: an optional sign and at least one digit
Atoi(s) ==
  LET signed == Len(s) > 0 /\ s[1] \in {"+", "-"}
      body   == IF signed THEN Tail(s) ELSE s
      ok     == Len(body) > 0 /\ \A i \in 1..Len(body) : body[i] \in Digits
  IN IF ~ok THEN [ok |-> FALSE, val |-> 0]
     ELSE [ok |-> TRUE,
           val |-> IF signed /\ s[1] = "-" THEN 0 - decimal(body) ELSE decimal(body)]

RECURSIVE Split(_, _)
\* strings.Split(s, sep) for a one-character sep: always at least one part
Split(s, sep) ==
  IF \A i \in 1..Len(s) : s[i] # sep THEN <<s>>
  ELSE LET i == CHOOSE k \in 1..Len(s) :
                  s[k] = sep /\ \A j \in 1..(k - 1) : s[j] # sep
       IN <<SubSeq(s, 1, i - 1)>> \o Split(SubSeq(s, i + 1, Len(s)), sep)

RECURSIVE Fields(_)
\* strings.Fields(s): the maximal runs of non-space characters
Fields(s) ==
  IF \A i \in 1..Len(s) : s[i] = " " THEN <<>>
  ELSE IF s[1] = " " THEN Fields(Tail(s))
  ELSE LET parts == Split(s, " ")
       IN <<parts[1]>> \o Fields(SubSeq(s, Len(parts[1]) + 1, Len(s)))

\* time.ParseInLocation("2006-01-02", s, loc): four digits, "-", two digits,
\* "-", two digits and nothing else; month and day in range
ParseDate(s) ==
  LET shape == /\ Len(s) = 10
               /\ s[5] = "-" /\ s[8] = "-"
               /\ \A i \in {1, 2, 3, 4, 6, 7, 9, 10} : s[i] \in Digits
      y == decimal(SubSeq(s, 1, 4))
      m == decimal(SubSeq(s, 6, 7))
      d == decimal(SubSeq(s, 9, 10))
  IN IF shape /\ m \in 1..12 /\ d >= 1 /\ d <= daysIn(m, y)
     THEN [ok |-> TRUE, val |-> GoDate(y, m, d, 0, 0, 0)]
     ELSE [ok |-> FALSE, val |-> 0]

(***************************************************************************)
(* pkg/work/record.go: the record parser.                                  *)
(***************************************************************************)
\* Record{}: the zero value
ZeroRecord ==
  [Date |-> zeroTime, Start |-> zeroTime, End |-> zeroTime,
   Duration |-> 0, Normal |-> FALSE]

\* a nil error
NoError == [kind |-> "nil"]

\* hasLeave without the clause on the duration
hasLeave_withoutMinimum(start, end) ==
  LET afternoonStart ==
        GoDate(Year(start), Month(start), Day(start), afternoonStartHour, 0, 0)
      earlyEnd ==
        GoDate(Year(end), Month(end), Day(end), earlyEndHour, 0, 0)
  IN \/ start > afternoonStart
     \/ end < earlyEnd

\* hasLeave with earlyEnd on the day of start
hasLeave_endOnStartDay(start, end) ==
  LET afternoonStart ==
        GoDate(Year(start), Month(start), Day(start), afternoonStartHour, 0, 0)
      earlyEnd ==
        GoDate(Year(start), Month(start), Day(start), earlyEndHour, 0, 0)
  IN \/ start > afternoonStart
     \/ end < earlyEnd
     \/ (end - start) < minWorkHours * Hour

\* hasLeave with noon itself counted as an afternoon start
hasLeave_fromNoon(start, end) ==
  LET afternoonStart ==
        GoDate(Year(start), Month(start), Day(start), afternoonStartHour, 0, 0)
      earlyEnd ==
        GoDate(Year(end), Month(end), Day(end), earlyEndHour, 0, 0)
  IN \/ start >= afternoonStart
     \/ end < earlyEnd
     \/ (end - start) < minWorkHours * Hour

\* hasLeave determines if there is leave on a given day based on start and
\* end.  end.Sub(start).Hours() is a float64; for the whole-second
\* durations of the model its comparison with 9 is exact.
hasLeave(start, end) ==
  LET afternoonStart ==
        GoDate(Year(start), Month(start), Day(start), afternoonStartHour, 0, 0)
      earlyEnd ==
        GoDate(Year(end), Month(end), Day(end), earlyEndHour, 0, 0)
  IN \/ start > afternoonStart
     \/ end < earlyEnd
     \/ (end - start) < minWorkHours * Hour

\* an integer clamped to lo..hi
clamp(x, lo, hi) == IF x < lo THEN lo ELSE IF x > hi THEN hi ELSE x

\* the return of parseTimeOnDate with each component clamped to its
\* conventional range
timeOnDate_clamped(date, hour, minute, second) ==
  GoDate(Year(date), Month(date), Day(date),
         clamp(hour, 0, 23), clamp(minute, 0, 59), clamp(second, 0, 59))

\* the return of parseTimeOnDate: time.Date on the day of date
timeOnDate(date, hour, minute, second) ==
  GoDate(Year(date), Month(date), Day(date), hour, minute, second)

\* parseTimeOnDate accepting more than three parts and reading the first three
parseTimeParts_atLeast3(date, timeParts) ==
  IF Len(timeParts) < 3
    THEN [val |-> zeroTime, err |-> [kind |-> "invalid time format"]]
  ELSE IF ~Atoi(timeParts[1]).ok
    THEN [val |-> zeroTime, err |-> [kind |-> "invalid hour"]]
  ELSE IF ~Atoi(timeParts[2]).ok
    THEN [val |-> zeroTime, err |-> [kind |-> "invalid minute"]]
  ELSE IF ~Atoi(timeParts[3]).ok
    THEN [val |-> zeroTime, err |-> [kind |-> "invalid second"]]
  ELSE [val |-> timeOnDate(date, Atoi(timeParts[1]).val,
                           Atoi(timeParts[2]).val, Atoi(timeParts[3]).val),
        err |-> NoError]

\* parseTimeOnDate once timeStr is split: the three parts must be integers
parseTimeParts(date, timeParts) ==
  IF Len(timeParts) # 3
    THEN [val |-> zeroTime, err |-> [kind |-> "invalid time format"]]
  ELSE IF ~Atoi(timeParts[1]).ok
    THEN [val |-> zeroTime, err |-> [kind |-> "invalid hour"]]
  ELSE IF ~Atoi(timeParts[2]).ok
    THEN [val |-> zeroTime, err |-> [kind |-> "invalid minute"]]
  ELSE IF ~Atoi(timeParts[3]).ok
    THEN [val |-> zeroTime, err |-> [kind |-> "invalid second"]]
  ELSE [val |-> timeOnDate(date, Atoi(timeParts[1]).val,
                           Atoi(timeParts[2]).val, Atoi(timeParts[3]).val),
        err |-> NoError]

\* parseTimeOnDate: the three colon-separated integers of timeStr, handed
\* to time.Date on the day of date
parseTimeOnDate(date, timeStr) == parseTimeParts(date, Split(timeStr, ":"))

\* the end time left where it was parsed
correctedEnd_sameDay(startTime, endTime) == endTime

\* the end time of a record: when it is before the start, the end time is
\* the next day
correctedEnd(startTime, endTime) ==
  IF endTime - startTime < 0 THEN endTime + 24 * Hour ELSE endTime

\* the Record parseSingleRecord returns; endTime is the corrected end
makeRecord(date, startTime, endTime) ==
  [Date |-> date, Start |-> startTime, End |-> endTime,
   Duration |-> endTime - startTime,
   Normal |-> ~hasLeave(startTime, endTime)]

\* parseSingleRecord once the two times are parsed
recordOfTimes(date, startTime, endTime) ==
  IF startTime.err # NoError
    THEN [rec |-> ZeroRecord,
          err |-> [kind |-> "failed to parse start time",
                   cause |-> startTime.err.kind]]
  ELSE IF endTime.err # NoError
    THEN [rec |-> ZeroRecord,
          err |-> [kind |-> "failed to parse end time",
                   cause |-> endTime.err.kind]]
  ELSE [rec |-> makeRecord(date, startTime.val,
                           correctedEnd(startTime.val, endTime.val)),
        err |-> NoError]

\* parseSingleRecord once the date is parsed
recordOnDate(date, startStr, endStr) ==
  IF ~date.ok
    THEN [rec |-> ZeroRecord, err |-> [kind |-> "failed to parse date"]]
  ELSE recordOfTimes(date.val, parseTimeOnDate(date.val, startStr),
                     parseTimeOnDate(date.val, endStr))

\* parseSingleRecord parses a single record from the CSV file
parseSingleRecord(dateStr, startStr, endStr) ==
  IF Len(Fields(dateStr)) < 1
    THEN [rec |-> ZeroRecord, err |-> [kind |-> "invalid date format"]]
  ELSE recordOnDate(ParseDate(Fields(dateStr)[1]), startStr, endStr)

\* the rows as ReadAll returns them, or the error of the first row whose
\* field count is not that of the first row
checkFieldCount(rows) ==
  IF \A i \in 1..Len(rows) : Len(rows[i]) = Len(rows[1])
    THEN [rows |-> rows, err |-> NoError]
  ELSE [rows |-> <<>>,
        err |-> [kind |-> "csv",
                 row |-> CHOOSE i \in 1..Len(rows) :
                           /\ Len(rows[i]) # Len(rows[1])
                           /\ \A j \in 1..(i - 1) : Len(rows[j]) = Len(rows[1])]]

\* csv.NewReader(file).ReadAll() on the lines of a file without quotes or
\* empty lines: every line splits at its commas, and with FieldsPerRecord
\* left at 0 every record must have as many fields as the first one
ReadAll(lines) ==
  checkFieldCount([i \in 1..Len(lines) |-> Split(lines[i], ",")])

\* records = append(records, record), with the record put in front
appendRecord_prepend(records, record) == <<record>> \o records

\* records = append(records, record)
appendRecord(records, record) == Append(records, record)

RECURSIVE parseRows(_, _, _)
RECURSIVE parsedRow(_, _, _, _)
\* the loop of ParseRecordsFromFile at row i, once the row is parsed to r
parsedRow(rows, i, acc, r) ==
  IF r.err # NoError
    THEN [records |-> <<>>,
          err |-> [kind |-> "error parsing row", row |-> i,
                   cause |-> r.err.kind]]
  ELSE parseRows(rows, i + 1, appendRecord(acc, r.rec))

\* the loop of ParseRecordsFromFile from row i on, records so far in acc
parseRows(rows, i, acc) ==
  IF i > Len(rows) THEN [records |-> acc, err |-> NoError]
  ELSE IF i = 1 THEN parseRows(rows, i + 1, acc)
  ELSE IF Len(rows[i]) # 3
    THEN [records |-> <<>>,
          err |-> [kind |-> "invalid CSV format", row |-> i,
                   got |-> Len(rows[i])]]
  ELSE parsedRow(rows, i, acc,
                 parseSingleRecord(rows[i][1], rows[i][2], rows[i][3]))

\* ParseRecordsFromFile once the file is read
recordsOfRows(all) ==
  IF all.err # NoError THEN [records |-> <<>>, err |-> all.err]
  ELSE IF Len(all.rows) < 2
    THEN [records |-> <<>>, err |-> [kind |-> "too few rows"]]
  ELSE parseRows(all.rows, 1, <<>>)

\* ParseRecordsFromFile parses a CSV file containing work records
ParseRecordsFromFile(f) ==
  IF ~f.exists THEN [records |-> <<>>, err |-> [kind |-> "open"]]
  ELSE recordsOfRows(ReadAll(f.lines))

(***************************************************************************)
(* pkg/work/record.go: the period aggregator.                              *)
(***************************************************************************)
\* a / b as Go divides int64: truncated toward zero (b > 0)
quo(a, b) == IF a >= 0 THEN a \div b ELSE 0 - ((0 - a) \div b)

\* the day of record.Date at 00:00:00
recordDate(record) ==
  GoDate(Year(record.Date), Month(record.Date), Day(record.Date), 0, 0, 0)

\* the condition under which the loop selects a record
selected(record, start, end) ==
  /\ (recordDate(record) = start \/ recordDate(record) > start)
  /\ (recordDate(record) = end \/ recordDate(record) < end)

\* the actual duration for every day, leave days included
durationForAverage_actual(record) == record.Duration

\* for average calculation: 9h for leave days, actual duration for normal days
durationForAverage(record) ==
  IF record.Normal THEN record.Duration ELSE minWorkHours * Hour

RECURSIVE accumulate(_, _, _, _, _)
\* the loop of CalculateAverageForRecords from record i on
accumulate(records, start, end, i, acc) ==
  IF i > Len(records) THEN acc
  ELSE IF selected(records[i], start, end)
    THEN accumulate(records, start, end, i + 1,
           [totalDuration |-> acc.totalDuration + durationForAverage(records[i]),
            count |-> acc.count + 1])
  ELSE accumulate(records, start, end, i + 1, acc)

\* CalculateAverageForRecords without the count == 0 check
CalculateAverageForRecords_unchecked(records, start, end) ==
  LET sum == accumulate(records, start, end, 1,
                        [totalDuration |-> 0, count |-> 0])
  IN [average |-> IF sum.count = 0 THEN 0
                  ELSE quo(sum.totalDuration, sum.count),
      count |-> sum.count, err |-> NoError]

\* CalculateAverageForRecords calculates the average work time for the
\* given records
CalculateAverageForRecords(records, start, end) ==
  LET sum == accumulate(records, start, end, 1,
                        [totalDuration |-> 0, count |-> 0])
  IN IF sum.count = 0
       THEN [average |-> 0, count |-> 0, err |-> [kind |-> "no data"]]
     ELSE [average |-> quo(sum.totalDuration, sum.count),
           count |-> sum.count, err |-> NoError]

(***************************************************************************)
(* cmd/sak/worktime.go: the periods.  now is time.Now() at a whole second: *)
(* every window is built by time.Date with nsec = 0 or by subtracting a    *)
(* whole second, so the sub-second part of now moves no window to another  *)
(* second.                                                                 *)
(***************************************************************************)
\* t.Weekday(): Sunday is 0; 1970-01-01 was a Thursday
Weekday(t) == ((t \div secondsPerDay) + 4) % 7

\* t.Clock(): hour, minute and second of the day
Clock(t) ==
  <<(t % secondsPerDay) \div Hour, (t % Hour) \div Minute, t % Minute>>

\* t.AddDate(years, months, days): time.Date on the sums, the clock kept
AddDate(t, years, months, days) ==
  GoDate(Year(t) + years, Month(t) + months, Day(t) + days,
         Clock(t)[1], Clock(t)[2], Clock(t)[3])

\* time.Date(t.Year(), t.Month(), t.Day(), hour, min, sec, 0, t.Location())
atClock(t, hour, min, sec) == GoDate(Year(t), Month(t), Day(t), hour, min, sec)

\* WorktimeSummary{Period, Label, Average, Count, Error} of an aggregation
summaryOf(period, label, r) ==
  [Period |-> period, Label |-> label, Average |-> r.average,
   Count |-> r.count, Error |-> r.err]

\* the call of work.CalculateAverageForRecords every period but the day ends with
averageOver(period, label, records, range) ==
  summaryOf(period, label,
            CalculateAverageForRecords(records, range.start, range.end))

RECURSIVE dayDurationFrom(_, _, _)
\* the loop of calculateDayDuration from record i on
dayDurationFrom(records, targetDate, i) ==
  IF i > Len(records)
    THEN [Period |-> "day", Label |-> "Day", Average |-> 0, Count |-> 0,
          Error |-> [kind |-> "no data for date",
                     date |-> civil(targetDate)]]
  ELSE IF civil(records[i].Date) = civil(targetDate)
    THEN [Period |-> "day", Label |-> "Day",
          Average |-> records[i].Duration, Count |-> 1, Error |-> NoError]
  ELSE dayDurationFrom(records, targetDate, i + 1)

\* calculateDayDuration: the work time of the first record on the target date
calculateDayDuration(records, targetDate) ==
  dayDurationFrom(records, targetDate, 1)

\* the week that starts on the Monday on or before now
thisWeekRange_fromMonday(now) ==
  [start |-> atClock(AddDate(now, 0, 0, 0 - ((Weekday(now) + 6) % 7)), 0, 0, 0),
   end   |-> atClock(now, 23, 59, 59)]

\* startOfWeek and endOfWeek of calculateThisWeekAverage
thisWeekRange(now) ==
  [start |-> atClock(AddDate(now, 0, 0, 0 - Weekday(now)), 0, 0, 0),
   end   |-> atClock(now, 23, 59, 59)]

calculateThisWeekAverage(records, now) ==
  averageOver("week", "Week", records, thisWeekRange(now))

\* the month window opened a month early
thisMonthRange_fromLastMonth(now) ==
  [start |-> GoDate(Year(now), Month(now) - 1, 1, 0, 0, 0),
   end   |-> atClock(now, 23, 59, 59)]

\* startOfMonth and endOfMonth of calculateThisMonthAverage
thisMonthRange(now) ==
  [start |-> GoDate(Year(now), Month(now), 1, 0, 0, 0),
   end   |-> atClock(now, 23, 59, 59)]

calculateThisMonthAverage(records, now) ==
  averageOver("month", "Month", records, thisMonthRange(now))

\* getQuarter: the quarter (1-4) of a time
getQuarter(t) == ((Month(t) - 1) \div 3) + 1

\* the first month of a quarter; the zero time.Month outside 1..4
startMonthOf(quarter) ==
  CASE quarter = 1 -> 1 [] quarter = 2 -> 4 [] quarter = 3 -> 7
    [] quarter = 4 -> 10 [] OTHER -> 0

\* the last month of a quarter; the zero time.Month outside 1..4
endMonthOf(quarter) ==
  CASE quarter = 1 -> 3 [] quarter = 2 -> 6 [] quarter = 3 -> 9
    [] quarter = 4 -> 12 [] OTHER -> 0

\* getQuarterRange with the end on day 30 of the quarter's last month
getQuarterRange_day30(year, quarter) ==
  [start |-> GoDate(year, startMonthOf(quarter), 1, 0, 0, 0),
   end   |-> GoDate(year, endMonthOf(quarter), 30, 23, 59, 59)]

\* getQuarterRange with the end on day 31 of the quarter's last month
getQuarterRange_day31(year, quarter) ==
  [start |-> GoDate(year, startMonthOf(quarter), 1, 0, 0, 0),
   end   |-> GoDate(year, endMonthOf(quarter), 31, 23, 59, 59)]

\* getQuarterRange: the start and the end of a quarter of a year
getQuarterRange(year, quarter) ==
  [start |-> GoDate(year, startMonthOf(quarter), 1, 0, 0, 0),
   end   |-> GoDate(year, endMonthOf(quarter) + 1, 1, 0, 0, 0) - 1]

\* minTime returns the earlier of two times
minTime(a, b) == IF a < b THEN a ELSE b

\* the range of now's quarter, the end cut at now and set to 23:59:59
cutAtNow(range, now) ==
  [start |-> range.start,
   end   |-> atClock(minTime(range.end, now), 23, 59, 59)]

\* the whole of now's quarter
thisQuarterRange_whole(now) == getQuarterRange(Year(now), getQuarter(now))

\* startOfQuarter and endOfQuarter of calculateThisQuarterAverage
thisQuarterRange(now) ==
  cutAtNow(getQuarterRange(Year(now), getQuarter(now)), now)

calculateThisQuarterAverage(records, now) ==
  averageOver("quarter", "Quarter", records, thisQuarterRange(now))

\* the previous quarter number, in now's year also from quarter 1
lastQuarterRange_sameYear(now) ==
  IF getQuarter(now) = 1
    THEN getQuarterRange(Year(now), 4)
  ELSE getQuarterRange(Year(now), getQuarter(now) - 1)

\* startOfLastQuarter and endOfLastQuarter of calculateLastQuarterAverage
lastQuarterRange(now) ==
  IF getQuarter(now) = 1
    THEN getQuarterRange(Year(now) - 1, 4)
  ELSE getQuarterRange(Year(now), getQuarter(now) - 1)

calculateLastQuarterAverage(records, now) ==
  averageOver("quarter", "Quarter", records, lastQuarterRange(now))

\* startOfYear and endOfYear of calculateThisYearAverage
thisYearRange(now) ==
  [start |-> GoDate(Year(now), 1, 1, 0, 0, 0),
   end   |-> GoDate(Year(now), Month(now), Day(now), 23, 59, 59)]

calculateThisYearAverage(records, now) ==
  averageOver("year", "Year", records, thisYearRange(now))

\* the last week given startOfThisWeek, which carries now's time of day
lastWeekBefore(startOfThisWeek) ==
  [start |-> atClock(AddDate(startOfThisWeek, 0, 0, 0 - 7), 0, 0, 0),
   end   |-> atClock(startOfThisWeek - 1, 23, 59, 59)]

\* startOfLastWeek and endOfLastWeek of calculateLastWeekAverage
lastWeekRange(now) == lastWeekBefore(AddDate(now, 0, 0, 0 - Weekday(now)))

calculateLastWeekAverage(records, now) ==
  averageOver("week", "Week", records, lastWeekRange(now))

\* the last month with its end at the first instant of this month
lastMonthBefore_endAtMonthStart(startOfThisMonth) ==
  [start |-> AddDate(startOfThisMonth, 0, 0 - 1, 0),
   end   |-> startOfThisMonth]

\* the last month given startOfThisMonth
lastMonthBefore(startOfThisMonth) ==
  [start |-> AddDate(startOfThisMonth, 0, 0 - 1, 0),
   end   |-> startOfThisMonth - 1]

\* startOfLastMonth and endOfLastMonth of calculateLastMonthAverage
lastMonthRange(now) == lastMonthBefore(GoDate(Year(now), Month(now), 1, 0, 0, 0))

calculateLastMonthAverage(records, now) ==
  averageOver("month", "Month", records, lastMonthRange(now))

\* the last year ending on December 31 of now's year
lastYearRange_endThisYear(now) ==
  [start |-> GoDate(Year(now) - 1, 1, 1, 0, 0, 0),
   end   |-> GoDate(Year(now), 12, 31, 23, 59, 59)]

\* startOfLastYear and endOfLastYear of calculateLastYearAverage
lastYearRange(now) ==
  [start |-> GoDate(Year(now) - 1, 1, 1, 0, 0, 0),
   end   |-> GoDate(Year(now) - 1, 12, 31, 23, 59, 59)]

calculateLastYearAverage(records, now) ==
  averageOver("year", "Year", records, lastYearRange(now))

(***************************************************************************)
(* pkg/utils: FormatDuration.  d.Hours() and d.Minutes() are exact on the  *)
(* whole seconds of the model, so int(...) is the quotient truncated       *)
(* toward zero; Go's % takes the sign of the dividend.                     *)
(***************************************************************************)
\* a % b of Go
rem(a, b) == a - b * quo(a, b)

digitChar(n) == <<"0", "1", "2", "3", "4", "5", "6", "7", "8", "9">>[n + 1]

RECURSIVE digitsOf(_)
\* the decimal digits of n >= 0
digitsOf(n) ==
  IF n < 10 THEN <<digitChar(n)>>
  ELSE digitsOf(n \div 10) \o <<digitChar(n % 10)>>

\* the verb %d
formatInt(n) == IF n < 0 THEN <<"-">> \o digitsOf(0 - n) ELSE digitsOf(n)

\* a width without the minus flag: spaces on the left
padLeft(s, width) ==
  IF Len(s) >= width THEN s ELSE [i \in 1..(width - Len(s)) |-> " "] \o s

\* a width with the minus flag: spaces on the right
padRight(s, width) ==
  IF Len(s) >= width THEN s ELSE s \o [i \in 1..(width - Len(s)) |-> " "]

\* FormatDuration with both fields rounded down
FormatDuration_floor(d) ==
  padLeft(formatInt(d \div Hour), 2) \o <<"h", " ">>
    \o padLeft(formatInt((d \div Minute) % 60), 2) \o <<"m">>

\* fmt.Sprintf("%2dh %2dm", hours, minutes)
FormatDuration(d) ==
  padLeft(formatInt(quo(d, Hour)), 2) \o <<"h", " ">>
    \o padLeft(formatInt(rem(quo(d, Minute), 60)), 2) \o <<"m">>

(***************************************************************************)
(* cmd/sak/worktime.go: the five comparisons of runWorktime and the table. *)
(***************************************************************************)
\* WorktimeSummary{}: the zero value
ZeroSummary ==
  [Period |-> "", Label |-> "", Average |-> 0, Count |-> 0, Error |-> NoError]

\* WorktimeComparison{Current: current}, Previous set with the flag only
comparisonOf(current, previous, includeComparison) ==
  [Current |-> current,
   Previous |-> IF includeComparison THEN previous ELSE ZeroSummary]

\* comparisons of runWorktime: day, week, month, quarter, year
comparisonsAt(records, now, includeComparison) ==
  <<comparisonOf(calculateDayDuration(records, now),
                 calculateDayDuration(records, AddDate(now, 0, 0, 0 - 1)),
                 includeComparison),
    comparisonOf(calculateThisWeekAverage(records, now),
                 calculateLastWeekAverage(records, now), includeComparison),
    comparisonOf(calculateThisMonthAverage(records, now),
                 calculateLastMonthAverage(records, now), includeComparison),
    comparisonOf(calculateThisQuarterAverage(records, now),
                 calculateLastQuarterAverage(records, now), includeComparison),
    comparisonOf(calculateThisYearAverage(records, now),
                 calculateLastYearAverage(records, now), includeComparison)>>

\* the characters of a Label
labelText(label) ==
  CASE label = "Day" -> <<"D", "a", "y">>
    [] label = "Week" -> <<"W", "e", "e", "k">>
    [] label = "Month" -> <<"M", "o", "n", "t", "h">>
    [] label = "Quarter" -> <<"Q", "u", "a", "r", "t", "e", "r">>
    [] label = "Year" -> <<"Y", "e", "a", "r">>
    [] OTHER -> <<>>

\* a cell that formats the average whether or not the period failed
durationCell_ignoreError(s) == FormatDuration(s.Average)

\* currentStr and previousStr of formatWorktimeTable
durationCell(s) ==
  IF s.Error # NoError THEN <<"-">> ELSE FormatDuration(s.Average)

\* one row of the table
tableRow(comp, includeComparison) ==
  IF includeComparison
    THEN padRight(labelText(comp.Current.Label), 8) \o <<" ">>
           \o padRight(durationCell(comp.Current), 12) \o <<" ">>
           \o durationCell(comp.Previous) \o <<"\n">>
  ELSE padRight(labelText(comp.Current.Label), 8) \o <<" ">>
         \o durationCell(comp.Current) \o <<"\n">>

\* the header line of the table
tableHeader(includeComparison) ==
  IF includeComparison
    THEN <<"P", "e", "r", "i", "o", "d", " ", " ", " ", "T", "h", "i", "s", " ", "P", "e", "r", "i", "o", "d", " ", " ", "L", "a", "s", "t", " ", "P", "e", "r", "i", "o", "d", "\n">>
  ELSE <<"P", "e", "r", "i", "o", "d", " ", " ", " ", "D", "u", "r", "a", "t", "i", "o", "n", "\n">>

\* formatWorktimeTable: the lines written to the builder, in order
formatWorktimeTable(comparisons, includeComparison) ==
  <<tableHeader(includeComparison)>>
    \o [i \in 1..Len(comparisons) |-> tableRow(comparisons[i], includeComparison)]

(***************************************************************************)
(* Inputs.  The strings are those of record_test.go and of the examples of *)
(* the documentation, with neighbours on both sides of every boundary the  *)
(* code tests.                                                             *)
(***************************************************************************)
\* date columns: plain, with a day name, a leap day, a year's last day,
\* malformed, out of range, empty, blank, a one-digit month
DateStrs ==
  {<<"2", "0", "2", "5", "-", "0", "7", "-", "1", "6">>,
   <<"2", "0", "2", "5", "-", "0", "7", "-", "1", "6", " ", "W", "e", "d", "n", "e", "s", "d", "a", "y">>,
   <<"2", "0", "2", "4", "-", "0", "2", "-", "2", "9">>,
   <<"2", "0", "2", "5", "-", "1", "2", "-", "3", "1", " ", "W", "e", "d">>,
   <<"i", "n", "v", "a", "l", "i", "d", "-", "d", "a", "t", "e">>,
   <<"2", "0", "2", "5", "-", "0", "2", "-", "3", "0">>,
   <<>>,
   <<" ", " ">>,
   <<"2", "0", "2", "5", "-", "7", "-", "1", "6">>}

\* time columns: in range, out of range, signed, non-numeric, wrong arity
TimeStrs ==
  {<<"0", "8", ":", "0", "0", ":", "0", "0">>,
   <<"0", "9", ":", "0", "0", ":", "0", "0">>,
   <<"0", "9", ":", "4", "1", ":", "4", "2">>,
   <<"1", "2", ":", "0", "0", ":", "0", "0">>,
   <<"1", "2", ":", "0", "0", ":", "0", "1">>,
   <<"1", "6", ":", "5", "9", ":", "5", "9">>,
   <<"1", "7", ":", "0", "0", ":", "0", "0">>,
   <<"1", "7", ":", "3", "0", ":", "0", "0">>,
   <<"1", "9", ":", "4", "1", ":", "4", "3">>,
   <<"2", "1", ":", "0", "0", ":", "0", "0">>,
   <<"2", "2", ":", "0", "0", ":", "0", "0">>,
   <<"0", "6", ":", "0", "0", ":", "0", "0">>,
   <<"0", "0", ":", "0", "0", ":", "0", "0">>,
   <<"2", "5", ":", "3", "0", ":", "0", "0">>,
   <<"0", "9", ":", "7", "0", ":", "0", "0">>,
   <<"0", "9", ":", "3", "0", ":", "7", "0">>,
   <<"4", "9", ":", "0", "0", ":", "0", "0">>,
   <<"4", "1", ":", "0", "0", ":", "0", "0">>,
   <<"+", "9", ":", "0", "0", ":", "0", "0">>,
   <<"x", "x", ":", "3", "0", ":", "0", "0">>,
   <<"0", "9", ":", "3", "0">>,
   <<"0", "9", ":", "3", "0", ":", "0", "0", ":", "0", "0">>,
   <<>>}

\* lines of worktime.csv: two headers, valid rows (a leave day and a normal
\* day of one week; Saturday the last day of 2022 and Sunday the first day
\* of 2023), three invalid rows
Lines ==
  {<<"D", "a", "t", "e", ",", "S", "t", "a", "r", "t", ",", "E", "n", "d">>,
   <<"D", "a", "t", "e", ",", "S", "t", "a", "r", "t">>,
   <<"2", "0", "2", "5", "-", "0", "7", "-", "1", "6", " ", "W", "e", "d", "n", "e", "s", "d", "a", "y", ",", "0", "9", ":", "0", "0", ":", "0", "0", ",", "1", "7", ":", "3", "0", ":", "0", "0">>,
   <<"2", "0", "2", "5", "-", "0", "7", "-", "1", "7", ",", "0", "8", ":", "3", "0", ":", "0", "0", ",", "1", "9", ":", "0", "0", ":", "0", "0">>,
   <<"i", "n", "v", "a", "l", "i", "d", "-", "d", "a", "t", "e", ",", "0", "9", ":", "0", "0", ":", "0", "0", ",", "1", "7", ":", "0", "0", ":", "0", "0">>,
   <<"2", "0", "2", "5", "-", "0", "7", "-", "1", "6", ",", "0", "9", ":", "0", "0", ":", "0", "0">>,
   <<"2", "0", "2", "5", "-", "0", "7", "-", "1", "5", ",", "2", "2", ":", "0", "0", ":", "0", "0", ",", "x", "x", ":", "3", "0", ":", "0", "0">>,
   <<"2", "0", "2", "2", "-", "1", "2", "-", "3", "1", ",", "0", "9", ":", "0", "0", ":", "0", "0", ",", "1", "8", ":", "0", "0", ":", "0", "0">>,
   <<"2", "0", "2", "3", "-", "0", "1", "-", "0", "1", " ", "S", "u", "n", "d", "a", "y", ",", "1", "0", ":", "0", "0", ":", "0", "0", ",", "1", "5", ":", "0", "0", ":", "0", "0">>}

RECURSIVE SeqsUpTo(_, _)
\* the sequences over S of length at most n
SeqsUpTo(S, n) ==
  IF n = 0 THEN {<<>>}
  ELSE LET shorter == SeqsUpTo(S, n - 1)
       IN shorter \cup {Append(q, x) : q \in {p \in shorter : Len(p) = n - 1}, x \in S}

\* first lines of worktime.csv: the header, a header of two columns, and a
\* data row in the header's place
Headers ==
  {<<"D", "a", "t", "e", ",", "S", "t", "a", "r", "t", ",", "E", "n", "d">>,
   <<"D", "a", "t", "e", ",", "S", "t", "a", "r", "t">>,
   <<"2", "0", "2", "5", "-", "0", "7", "-", "1", "7", ",", "0", "8", ":", "3", "0", ":", "0", "0", ",", "1", "9", ":", "0", "0", ":", "0", "0">>}

\* worktime.csv: absent, empty, or a first line and any further lines, at
\* most MaxRows lines in all
Files ==
  {[exists |-> FALSE, lines |-> <<>>], [exists |-> TRUE, lines |-> <<>>]}
    \cup {[exists |-> TRUE, lines |-> <<h>> \o ls] :
            h \in Headers, ls \in SeqsUpTo(Lines, MaxRows - 1)}

\* a day of July 2025, the month of the record literals and the windows
Jul(day) == GoDate(2025, 7, day, 0, 0, 0)

\* a Record literal with only Date, Duration and Normal set
Lit(date, duration, normal) ==
  [Date |-> date, Start |-> zeroTime, End |-> zeroTime,
   Duration |-> duration, Normal |-> normal]

\* records := []Record{...} of TestCalculateAverageForRecords: Normal is
\* left at its zero value
TestRecords ==
  <<Lit(Jul(14), 8 * Hour, FALSE),
    Lit(Jul(15), 7 * Hour + 30 * Minute, FALSE),
    Lit(Jul(16), 8 * Hour + 30 * Minute, FALSE),
    Lit(Jul(17), 9 * Hour, FALSE),
    Lit(Jul(20), 6 * Hour, FALSE)>>

\* Record literals a caller of the exported aggregator can pass: normal
\* and leave days, a Date that carries a time of day, a negative Duration
RecordLits ==
  {Lit(Jul(14), 9 * Hour, TRUE),
   Lit(Jul(14), 5 * Hour, FALSE),
   Lit(Jul(15), 9 * Hour, TRUE),
   Lit(Jul(15), 5 * Hour, FALSE),
   Lit(Jul(15) + 13 * Hour, 10 * Hour + 1, TRUE),
   Lit(Jul(15), 0 - (7 * Hour + 1), TRUE),
   Lit(Jul(16), 5 * Hour, TRUE),
   Lit(Jul(16), 0 - (7 * Hour + 1), TRUE),
   Lit(Jul(16), 12 * Hour, FALSE)}

RecordLists == SeqsUpTo(RecordLits, MaxRecords) \cup {TestRecords}

\* window bounds: day starts, a start that carries a time of day, day ends
WindowStarts ==
  {Jul(14), Jul(15), Jul(15) + 10 * Hour, Jul(16), GoDate(2025, 8, 1, 0, 0, 0)}

WindowEnds ==
  {Jul(14), GoDate(2025, 7, 15, 23, 59, 59), Jul(16), Jul(20),
   GoDate(2025, 8, 31, 0, 0, 0)}

\* date arguments of a direct call of parseTimeOnDate: day starts, and a
\* date that carries a time of day
Dates ==
  {Jul(16), Jul(16) + 13 * Hour, GoDate(2024, 2, 29, 0, 0, 0),
   GoDate(2025, 12, 31, 0, 0, 0)}

\* arguments of a direct call of hasLeave
Instants ==
  {GoDate(2025, 7, 16, 9, 41, 42), GoDate(2025, 7, 16, 10, 0, 0),
   GoDate(2025, 7, 16, 12, 0, 0), GoDate(2025, 7, 16, 12, 0, 1),
   GoDate(2025, 7, 16, 15, 0, 0), GoDate(2025, 7, 16, 16, 59, 59),
   GoDate(2025, 7, 16, 17, 0, 0), GoDate(2025, 7, 16, 19, 41, 43),
   GoDate(2025, 7, 16, 20, 59, 59), GoDate(2025, 7, 16, 21, 0, 0),
   GoDate(2025, 7, 17, 6, 0, 0), GoDate(2025, 7, 17, 17, 0, 0)}

\* time.Now(): every day of the week of Sunday 2023-01-01, the first day of
\* a year, and days around the week of the July records, at the first and
\* the last second of a day and in between; the first and the last second
\* of months, quarters and years; days after months of 28, 29, 30 and 31
\* days
Nows ==
  {GoDate(2022, 12, 31, 23, 59, 59), GoDate(2023, 1, 1, 0, 0, 0),
   GoDate(2023, 1, 1, 9, 30, 0), GoDate(2023, 1, 2, 0, 0, 1),
   GoDate(2023, 1, 3, 10, 0, 0), GoDate(2023, 1, 4, 18, 0, 0),
   GoDate(2023, 1, 5, 8, 0, 0), GoDate(2023, 1, 6, 23, 0, 0),
   GoDate(2023, 1, 7, 23, 59, 59), GoDate(2023, 2, 14, 7, 0, 0),
   GoDate(2024, 2, 29, 12, 0, 0), GoDate(2024, 3, 10, 12, 0, 0),
   GoDate(2025, 3, 31, 23, 59, 59), GoDate(2025, 5, 31, 8, 0, 0),
   GoDate(2025, 6, 30, 23, 59, 59), GoDate(2025, 7, 16, 0, 0, 0),
   GoDate(2025, 7, 16, 10, 0, 0), GoDate(2025, 7, 19, 12, 0, 0),
   GoDate(2025, 7, 20, 0, 0, 0), GoDate(2025, 7, 22, 10, 0, 0),
   GoDate(2025, 8, 1, 0, 0, 0), GoDate(2025, 9, 30, 23, 59, 59),
   GoDate(2025, 10, 1, 0, 0, 0), GoDate(2025, 12, 31, 23, 59, 59),
   GoDate(2026, 1, 1, 0, 0, 0)}

\* time.Now() of a whole run of runWorktime: around the one boundary that
\* ends a week, a month, a quarter and a year at once, and in and after the
\* week, the month, the quarter and the year of the rows of July 2025
RunNows ==
  {GoDate(2022, 12, 31, 23, 59, 59), GoDate(2023, 1, 1, 9, 30, 0),
   GoDate(2023, 1, 3, 10, 0, 0), GoDate(2023, 2, 14, 7, 0, 0),
   GoDate(2025, 7, 16, 10, 0, 0), GoDate(2025, 7, 22, 10, 0, 0),
   GoDate(2025, 8, 1, 0, 0, 0), GoDate(2025, 10, 1, 0, 0, 0),
   GoDate(2026, 1, 1, 0, 0, 0)}

\* arguments of a direct call of getQuarter: a time in every month
MonthInstants == {GoDate(2025, m, 15, 12, 0, 0) : m \in 1..12}

\* arguments of a direct call of getQuarterRange
QuarterYears == {2024, 2025}
Quarters == 1..4

\* arguments of a direct call of FormatDuration: those of time_test.go
\* (0, 1h30m, 23h59m, -1h30m), durations short of and on a whole minute
\* and a whole hour on both sides of zero, and three-digit hours
Durations ==
  {0, Hour + 30 * Minute, 23 * Hour + 59 * Minute, 0 - (Hour + 30 * Minute),
   1, 59, Minute, 61, Hour - 1, Hour, Hour + 1, 9 * Hour,
   8 * Hour + 29 * Minute + 59, 100 * Hour + 5 * Minute,
   0 - 1, 0 - 59, 0 - Minute, 0 - 61, 0 - 30 * Minute, 0 - (Hour - 1),
   0 - Hour, 0 - (Hour + 1), 0 - (9 * Hour + 59 * Minute + 59),
   0 - (100 * Hour + 5 * Minute)}

(***************************************************************************)
(* internal/log: a leveled Logger behind a mutex.  A line is the string of *)
(* its bytes; the escape byte of a color code is written as Go writes it.  *)
(***************************************************************************)
DEBUG == 0
INFO == 1
WARN == 2
ERROR == 3

Levels == {DEBUG, INFO, WARN, ERROR}

\* Level.String
levelString(l) ==
  CASE l = DEBUG -> <<"D", "E", "B", "U", "G">>
    [] l = INFO -> <<"I", "N", "F", "O">>
    [] l = WARN -> <<"W", "A", "R", "N">>
    [] l = ERROR -> <<"E", "R", "R", "O", "R">>
    [] OTHER -> <<"U", "N", "K", "N", "O", "W", "N">>

ColorReset == <<"\\033", "[", "0", "m">>

\* the color code of a level: gray, green, yellow, red
levelColors(l) ==
  CASE l = DEBUG -> <<"\\033", "[", "9", "0", "m">>
    [] l = INFO -> <<"\\033", "[", "3", "2", "m">>
    [] l = WARN -> <<"\\033", "[", "3", "3", "m">>
    [] l = ERROR -> <<"\\033", "[", "3", "1", "m">>

\* the line Logger.log formats for a message of a level
lineOf(withColors, l, message) ==
  IF withColors
    THEN levelColors(l) \o <<"[">> \o levelString(l) \o <<"]">>
           \o ColorReset \o <<" ">> \o message \o <<"\n">>
    ELSE <<"[">> \o levelString(l) \o <<"]", " ">> \o message \o <<"\n">>

\* the goroutines that share the Logger, and the calls each of them makes
NumGoroutines == 2
MaxOps == 2
Goroutines == 1..NumGoroutines

\* the formatted messages of the callers
Messages == {<<"a">>, <<"b">>}

\* a goroutine outside the Logger that has made n calls
Idle(n) ==
  [pc |-> "idle", fn |-> "none", level |-> INFO, buf |-> <<>>, written |-> 0,
   ops |-> n]

(***************************************************************************)
(* pkg/diary: one diary file per day in a directory.  A file's content is  *)
(* the string of its bytes; the times of this package are seconds of UTC,  *)
(* the location time.Parse gives the date of a file name.                  *)
(***************************************************************************)
\* a number in decimal with leading zeros to a width
zeroPadded(n, width) ==
  [i \in 1..(width - Len(digitsOf(n))) |-> "0"] \o digitsOf(n)

\* date.Format("2006-01-02")
formatDateOnly(t) ==
  zeroPadded(Year(t), 4) \o <<"-">> \o zeroPadded(Month(t), 2)
    \o <<"-">> \o zeroPadded(Day(t), 2)

\* time.Now().Format("15:04")
formatHourMinute(t) ==
  zeroPadded(Clock(t)[1], 2) \o <<":">> \o zeroPadded(Clock(t)[2], 2)

\* GetDiaryPath: the name of the file of a date in the directory
GetDiaryPath(date) == formatDateOnly(date) \o <<".", "m", "d">>

\* fmt.Sprintf(DefaultTemplate, date.Format("2006-01-02"))
templateOf(date) ==
  <<"#", " ", "D", "i", "a", "r", "y", " ", "-", " ">> \o formatDateOnly(date)
    \o <<"\n", "\n", "#", "#", " ", "M", "o", "r", "n", "i", "n", "g", " ",
       "T", "h", "o", "u", "g", "h", "t", "s", "\n", "\n", "\n", "#", "#",
       " ", "D", "a", "i", "l", "y", " ", "L", "o", "g", "\n", "\n", "\n",
       "#", "#", " ", "E", "v", "e", "n", "i", "n", "g", " ", "R", "e", "f",
       "l", "e", "c", "t", "i", "o", "n", "\n", "\n", "\n", "-", "-", "-",
       "\n">>

\* fmt.Sprintf("\n**%s** - %s\n", timestamp, content)
entryOf(now, content) ==
  <<"\n", "*", "*">> \o formatHourMinute(now) \o <<"*", "*", " ", "-", " ">>
    \o content \o <<"\n">>

\* os.Stat(path) reports that the file does not exist
notExist(d, path) == ~d.dir \/ path \notin DOMAIN d.files

\* os.WriteFile(path, data, 0644) in an existing directory
writeFile(d, path, data) ==
  [d EXCEPT !.files = [n \in DOMAIN d.files \cup {path} |->
                         IF n = path THEN data ELSE d.files[n]]]

\* a write that replaces what the file held
appendString_truncating(d, path, s) ==
  [d EXCEPT !.files[path] = s]

\* file.WriteString(s) on a file opened with O_APPEND|O_WRONLY
appendString(d, path, s) ==
  [d EXCEPT !.files[path] = d.files[path] \o s]

\* CreateOrAppendEntry from the append on: d is the directory after the
\* file was created if it had to be
appendEntry(d, path, now, content, existed) ==
  IF content = <<>> THEN [disk |-> d, existed |-> existed, err |-> NoError]
  ELSE IF notExist(d, path)
    THEN [disk |-> d, existed |-> existed,
          err |-> [kind |-> "failed to open diary file"]]
  ELSE [disk |-> appendString(d, path, entryOf(now, content)),
        existed |-> existed, err |-> NoError]

\* CreateOrAppendEntry(date, content, baseDir) on the directory d at the
\* time now: the directory afterwards, what os.Stat found, the error
CreateOrAppendEntry(d, date, content, now) ==
  IF notExist(d, GetDiaryPath(date))
    THEN IF ~d.dir
           THEN [disk |-> d, existed |-> FALSE,
                 err |-> [kind |-> "failed to create diary file"]]
         ELSE appendEntry(writeFile(d, GetDiaryPath(date), templateOf(date)),
                          GetDiaryPath(date), now, content, FALSE)
  ELSE appendEntry(d, GetDiaryPath(date), now, content, TRUE)

\* filepath.Match of a name against "????-??-??.md"
matchesPattern(name) ==
  LET pattern == <<"?", "?", "?", "?", "-", "?", "?", "-", "?", "?", ".", "m", "d">>
  IN /\ Len(name) = Len(pattern)
     /\ \A i \in 1..Len(pattern) : pattern[i] = "?" \/ pattern[i] = name[i]

\* strings.TrimSuffix(basename, ".md")
trimSuffix(name) ==
  IF Len(name) >= 3 /\ SubSeq(name, Len(name) - 2, Len(name)) = <<".", "m", "d">>
    THEN SubSeq(name, 1, Len(name) - 3)
  ELSE name

\* the names a directory can hold, in the order filepath.Glob sorts them
DiaryNames ==
  <<<<"2", "0", "2", "3", "-", "0", "2", "-", "3", "0", ".", "m", "d">>,
    <<"2", "0", "2", "3", "-", "1", "2", "-", "2", "4", ".", "m", "d">>,
    <<"2", "0", "2", "3", "-", "1", "2", "-", "2", "5", ".", "m", "d">>,
    <<"2", "0", "2", "3", "-", "1", "2", "-", "2", "6", ".", "m", "d">>,
    <<"2", "0", "2", "3", "-", "1", "3", "-", "4", "5", ".", "m", "d">>,
    <<"2", "0", "2", "4", "-", "0", "1", "-", "0", "1", ".", "m", "d">>,
    <<"a", "b", "c", "d", "-", "e", "f", "-", "g", "h", ".", "m", "d">>,
    <<"n", "o", "t", "-", "a", "-", "d", "i", "a", "r", "y", ".", "t", "x", "t">>>>

\* FindDiaryFiles: the names of the directory that match the pattern, sorted
FindDiaryFiles(d) ==
  SelectSeq(DiaryNames,
            LAMBDA n : d.dir /\ n \in DOMAIN d.files /\ matchesPattern(n))

\* the range test with the end excluded
withinRange_endExcluded(date, start, end) ==
  (date = start \/ date > start) /\ date < end

\* (date.Equal(start) || date.After(start)) && (date.Equal(end) || date.Before(end))
withinRange(date, start, end) ==
  (date = start \/ date > start) /\ (date = end \/ date < end)

\* the loop body of FilterDiariesByDate: whether a file is kept
kept(name, start, end) ==
  /\ ParseDate(trimSuffix(name)).ok
  /\ withinRange(ParseDate(trimSuffix(name)).val, start, end)

\* FilterDiariesByDate(baseDir, start, end)
FilterDiariesByDate(d, start, end) ==
  [files |-> SelectSeq(FindDiaryFiles(d), LAMBDA n : kept(n, start, end)),
   err |-> NoError]

\* calls of CreateOrAppendEntry in one run
MaxCalls == 3

\* what the tests write into a file that exists beforehand
Existing == <<"t", "e", "s", "t", " ", "c", "o", "n", "t", "e", "n", "t">>

\* a directory that holds the given names
DirOf(names) == [dir |-> TRUE, files |-> [n \in names |-> Existing]]

\* the diary directory before the first call: missing, empty, with the file
\* of the day, with the files of TestFilterDiariesByDate, with every name
InitialDisks ==
  {[dir |-> FALSE, files |-> <<>>],
   DirOf({}),
   DirOf({DiaryNames[3]}),
   DirOf({DiaryNames[2], DiaryNames[3], DiaryNames[4], DiaryNames[6]}),
   DirOf({DiaryNames[i] : i \in 1..Len(DiaryNames)})}

\* the date of the entries: that of diary_test.go
DiaryDate == GoDate(2023, 12, 25, 0, 0, 0)

\* the content argument: none, and two different texts
Contents == {<<>>, <<"T", "e", "s", "t", " ", "e", "n", "t", "r", "y">>, <<"b">>}

\* time.Now() of a call
EntryTimes == {GoDate(2023, 12, 25, 9, 5, 0), GoDate(2023, 12, 25, 15, 4, 59)}

\* start and end of a filter: those of TestFilterDiariesByDate, the first
\* second after and the last second before a file's date, the date itself,
\* and a local midnight east of UTC
FilterStarts ==
  {GoDate(2023, 12, 24, 0, 0, 0), GoDate(2023, 12, 24, 0, 0, 1),
   GoDate(2023, 12, 23, 16, 0, 0)}

FilterEnds ==
  {GoDate(2023, 12, 26, 23, 59, 59), GoDate(2023, 12, 26, 0, 0, 0),
   GoDate(2023, 12, 25, 23, 59, 59)}

(***************************************************************************)
(* The state machine: one run of the tool (parse the file, aggregate a     *)
(* window), or one call of a function of the package as its tests make it. *)
(***************************************************************************)
VARIABLES pc, file, parsed, records, window, summary, call,
          disk, calls, level, colors, output, mu, goroutines

\* the diary directory and the calls made on it
diaryVars == <<disk, calls>>
\* the default Logger, what it wrote, its mutex, the goroutines that use it
loggerVars == <<level, colors, output, mu, goroutines>>

vars == <<pc, file, parsed, records, window, summary, call,
          disk, calls, level, colors, output, mu, goroutines>>

None == [kind |-> "none"]

\* no diary directory in use, no call made
DiaryAtRest ==
  /\ disk = None
  /\ calls = <<>>

\* the default Logger with no goroutine using it
LoggerAtRest ==
  /\ level = INFO
  /\ colors = TRUE
  /\ output = <<>>
  /\ mu = None
  /\ goroutines = <<>>

\* no run of the worktime command and no call under way
WorktimeAtRest ==
  /\ pc = "idle"
  /\ file = None
  /\ parsed = None
  /\ records = <<>>
  /\ window = None
  /\ summary = None
  /\ call = None

Init ==
  /\ WorktimeAtRest
  /\ DiaryAtRest
  /\ LoggerAtRest

\* the state after ParseRecordsFromFile(f) returned ret
Parsed(f, ret) ==
  /\ file' = f
  /\ parsed' = ret
  /\ records' = ret.records
  /\ pc' = IF ret.err = NoError THEN "parsed" ELSE "failed"

\* runWorktime up to the parse of worktime.csv
ParseFile ==
  /\ pc = "idle"
  /\ \E f \in Files : Parsed(f, ParseRecordsFromFile(f))
  /\ UNCHANGED <<window, summary, call>>
  /\ UNCHANGED <<diaryVars, loggerVars>>

\* a caller builds the record list itself
BuildRecords ==
  /\ pc = "idle"
  /\ \E rs \in RecordLists : records' = rs
  /\ pc' = "built"
  /\ UNCHANGED <<file, parsed, window, summary, call>>
  /\ UNCHANGED <<diaryVars, loggerVars>>

\* one call of CalculateAverageForRecords on the record list
Aggregate ==
  /\ pc \in {"parsed", "built"}
  /\ \E start \in WindowStarts, end \in WindowEnds :
       /\ window' = [start |-> start, end |-> end]
       /\ summary' = CalculateAverageForRecords(records, start, end)
  /\ pc' = "aggregated"
  /\ UNCHANGED <<file, parsed, records, call>>
  /\ UNCHANGED <<diaryVars, loggerVars>>

\* one call of parseSingleRecord
CallParseSingleRecord ==
  /\ pc = "idle"
  /\ \E dateStr \in DateStrs, startStr \in TimeStrs, endStr \in TimeStrs :
       call' = [fn |-> "parseSingleRecord", dateStr |-> dateStr,
                startStr |-> startStr, endStr |-> endStr,
                ret |-> parseSingleRecord(dateStr, startStr, endStr)]
  /\ pc' = "called"
  /\ UNCHANGED <<file, parsed, records, window, summary>>
  /\ UNCHANGED <<diaryVars, loggerVars>>

\* one call of parseTimeOnDate
CallParseTimeOnDate ==
  /\ pc = "idle"
  /\ \E date \in Dates, timeStr \in TimeStrs :
       call' = [fn |-> "parseTimeOnDate", date |-> date, timeStr |-> timeStr,
                ret |-> parseTimeOnDate(date, timeStr)]
  /\ pc' = "called"
  /\ UNCHANGED <<file, parsed, records, window, summary>>
  /\ UNCHANGED <<diaryVars, loggerVars>>

\* one call of hasLeave
CallHasLeave ==
  /\ pc = "idle"
  /\ \E start \in Instants, end \in Instants :
       call' = [fn |-> "hasLeave", start |-> start, end |-> end,
                ret |-> hasLeave(start, end)]
  /\ pc' = "called"
  /\ UNCHANGED <<file, parsed, records, window, summary>>
  /\ UNCHANGED <<diaryVars, loggerVars>>

\* the state after a period function was called at now: range is the
\* window it handed to the aggregator, ret the WorktimeSummary it returned
Summarized(fn, now, range, ret) ==
  /\ call' = [fn |-> fn, now |-> now, ret |-> ret]
  /\ window' = range
  /\ pc' = "summarized"
  /\ UNCHANGED <<file, parsed, records, summary>>
  /\ UNCHANGED <<diaryVars, loggerVars>>

\* runWorktime: currentDay
CalcDay ==
  /\ pc = "parsed"
  /\ \E now \in Nows :
       Summarized("calculateDayDuration", now, None,
                  calculateDayDuration(records, now))

\* runWorktime: dayComparison.Previous, the day before now
CalcYesterday ==
  /\ pc = "parsed"
  /\ \E now \in Nows :
       Summarized("calculateDayDuration", AddDate(now, 0, 0, 0 - 1), None,
                  calculateDayDuration(records, AddDate(now, 0, 0, 0 - 1)))

\* runWorktime: currentWeek
CalcThisWeek ==
  /\ pc = "parsed"
  /\ \E now \in Nows :
       Summarized("calculateThisWeekAverage", now, thisWeekRange(now),
                  calculateThisWeekAverage(records, now))

\* runWorktime: weekComparison.Previous
CalcLastWeek ==
  /\ pc = "parsed"
  /\ \E now \in Nows :
       Summarized("calculateLastWeekAverage", now, lastWeekRange(now),
                  calculateLastWeekAverage(records, now))

\* runWorktime: currentMonth
CalcThisMonth ==
  /\ pc = "parsed"
  /\ \E now \in Nows :
       Summarized("calculateThisMonthAverage", now, thisMonthRange(now),
                  calculateThisMonthAverage(records, now))

\* runWorktime: monthComparison.Previous
CalcLastMonth ==
  /\ pc = "parsed"
  /\ \E now \in Nows :
       Summarized("calculateLastMonthAverage", now, lastMonthRange(now),
                  calculateLastMonthAverage(records, now))

\* runWorktime: currentQuarter
CalcThisQuarter ==
  /\ pc = "parsed"
  /\ \E now \in Nows :
       Summarized("calculateThisQuarterAverage", now, thisQuarterRange(now),
                  calculateThisQuarterAverage(records, now))

\* runWorktime: quarterComparison.Previous
CalcLastQuarter ==
  /\ pc = "parsed"
  /\ \E now \in Nows :
       Summarized("calculateLastQuarterAverage", now, lastQuarterRange(now),
                  calculateLastQuarterAverage(records, now))

\* runWorktime: currentYear
CalcThisYear ==
  /\ pc = "parsed"
  /\ \E now \in Nows :
       Summarized("calculateThisYearAverage", now, thisYearRange(now),
                  calculateThisYearAverage(records, now))

\* runWorktime: yearComparison.Previous
CalcLastYear ==
  /\ pc = "parsed"
  /\ \E now \in Nows :
       Summarized("calculateLastYearAverage", now, lastYearRange(now),
                  calculateLastYearAverage(records, now))

\* one call of getQuarter
CallGetQuarter ==
  /\ pc = "idle"
  /\ \E t \in MonthInstants \cup Nows :
       call' = [fn |-> "getQuarter", t |-> t, ret |-> getQuarter(t)]
  /\ pc' = "called"
  /\ UNCHANGED <<file, parsed, records, window, summary>>
  /\ UNCHANGED <<diaryVars, loggerVars>>

\* one call of getQuarterRange
CallGetQuarterRange ==
  /\ pc = "idle"
  /\ \E year \in QuarterYears, quarter \in Quarters :
       call' = [fn |-> "getQuarterRange", year |-> year, quarter |-> quarter,
                ret |-> getQuarterRange(year, quarter)]
  /\ pc' = "called"
  /\ UNCHANGED <<file, parsed, records, window, summary>>
  /\ UNCHANGED <<diaryVars, loggerVars>>

\* the state after runWorktime built comparisons at now and printed the table
Ran(now, includeComparison, comparisons) ==
  /\ call' = [fn |-> "runWorktime", now |-> now,
              includeComparison |-> includeComparison,
              comparisons |-> comparisons,
              output |-> formatWorktimeTable(comparisons, includeComparison),
              ret |-> NoError]
  /\ pc' = "done"
  /\ UNCHANGED <<file, parsed, records, window, summary>>
  /\ UNCHANGED <<diaryVars, loggerVars>>

\* runWorktime after the parse: the five comparisons, the table, return nil
RunWorktime ==
  /\ pc = "parsed"
  /\ \E now \in RunNows, includeComparison \in BOOLEAN :
       Ran(now, includeComparison,
           comparisonsAt(records, now, includeComparison))

\* one call of utils.FormatDuration
CallFormatDuration ==
  /\ pc = "idle"
  /\ \E d \in Durations :
       call' = [fn |-> "FormatDuration", d |-> d, ret |-> FormatDuration(d)]
  /\ pc' = "called"
  /\ UNCHANGED <<file, parsed, records, window, summary>>
  /\ UNCHANGED <<diaryVars, loggerVars>>

Next ==
  \/ ParseFile
  \/ BuildRecords
  \/ Aggregate
  \/ CallParseSingleRecord
  \/ CallParseTimeOnDate
  \/ CallHasLeave
  \/ CalcDay
  \/ CalcYesterday
  \/ CalcThisWeek
  \/ CalcLastWeek
  \/ CalcThisMonth
  \/ CalcLastMonth
  \/ CalcThisQuarter
  \/ CalcLastQuarter
  \/ CalcThisYear
  \/ CalcLastYear
  \/ CallGetQuarter
  \/ CallGetQuarterRange
  \/ RunWorktime
  \/ CallFormatDuration

Spec == Init /\ [][Next]_vars

(***************************************************************************)
(* The diary: calls of CreateOrAppendEntry for one date on one directory,  *)
(* and calls of FilterDiariesByDate on it.                                 *)
(***************************************************************************)
DiaryInit ==
  /\ WorktimeAtRest
  /\ disk \in InitialDisks
  /\ calls = <<>>
  /\ LoggerAtRest

\* the state after CreateOrAppendEntry(date, content, dir) returned ret
Entered(date, content, now, ret) ==
  /\ disk' = ret.disk
  /\ calls' = Append(calls, [date |-> date, content |-> content, now |-> now,
                             existed |-> ret.existed, err |-> ret.err])
  /\ call' = [fn |-> "CreateOrAppendEntry", ret |-> ret.err]
  /\ UNCHANGED <<pc, file, parsed, records, window, summary>>
  /\ UNCHANGED loggerVars

\* one call of CreateOrAppendEntry
CallCreateOrAppendEntry ==
  /\ Len(calls) < MaxCalls
  /\ \E content \in Contents, now \in EntryTimes :
       Entered(DiaryDate, content, now,
               CreateOrAppendEntry(disk, DiaryDate, content, now))

\* one call of FilterDiariesByDate
CallFilterDiariesByDate ==
  /\ \E start \in FilterStarts, end \in FilterEnds :
       call' = [fn |-> "FilterDiariesByDate", start |-> start, end |-> end,
                ret |-> FilterDiariesByDate(disk, start, end)]
  /\ UNCHANGED <<pc, file, parsed, records, window, summary>>
  /\ UNCHANGED <<diaryVars, loggerVars>>

DiaryNext ==
  \/ CallCreateOrAppendEntry
  \/ CallFilterDiariesByDate

DiarySpec == DiaryInit /\ [][DiaryNext]_vars

(***************************************************************************)
(* The Logger: goroutines that call its level methods and SetLevel.  A     *)
(* goroutine is at one line of the method it is in; the bytes of the line  *)
(* Fprintf hands to the output in one Write reach it one after another.    *)
(* The read of l.level in log is not under the mutex: it sees the level    *)
(* assigned last, before or after a SetLevel that runs beside it.          *)
(***************************************************************************)
LoggerInit ==
  /\ WorktimeAtRest
  /\ DiaryAtRest
  /\ level = INFO
  /\ colors \in BOOLEAN
  /\ output = <<>>
  /\ mu = None
  /\ goroutines = [g \in Goroutines |-> Idle(0)]

\* goroutine g calls l.log(lvl, ...): it returns at once when the level it
\* reads is above lvl, and goes on to l.Lock() otherwise
Log(g) ==
  /\ goroutines[g].pc = "idle"
  /\ goroutines[g].ops < MaxOps
  /\ \E lvl \in Levels, message \in Messages :
       goroutines' =
         [goroutines EXCEPT ![g] =
            IF lvl < level
              THEN Idle(@.ops + 1)
              ELSE [pc |-> "lock", fn |-> "log", level |-> lvl,
                    buf |-> lineOf(colors, lvl, message), written |-> 0,
                    ops |-> @.ops + 1]]
  /\ UNCHANGED <<level, colors, output, mu>>
  /\ UNCHANGED <<pc, file, parsed, records, window, summary, call>>
  /\ UNCHANGED diaryVars

\* goroutine g calls l.SetLevel(lvl) and arrives at l.Lock()
SetLevel(g) ==
  /\ goroutines[g].pc = "idle"
  /\ goroutines[g].ops < MaxOps
  /\ \E lvl \in Levels :
       goroutines' =
         [goroutines EXCEPT ![g] =
            [pc |-> "lock", fn |-> "SetLevel", level |-> lvl, buf |-> <<>>,
             written |-> 0, ops |-> @.ops + 1]]
  /\ UNCHANGED <<level, colors, output, mu>>
  /\ UNCHANGED <<pc, file, parsed, records, window, summary, call>>
  /\ UNCHANGED diaryVars

\* l.Lock() of goroutine g: it waits until the mutex is free
Lock(g) ==
  /\ goroutines[g].pc = "lock"
  /\ mu = None
  /\ mu' = [kind |-> "locked", by |-> g]
  /\ goroutines' =
       [goroutines EXCEPT ![g].pc =
          IF goroutines[g].fn = "log" THEN "write" ELSE "assign"]
  /\ UNCHANGED <<level, colors, output>>
  /\ UNCHANGED <<pc, file, parsed, records, window, summary, call>>
  /\ UNCHANGED diaryVars

\* the next byte of the line of goroutine g reaches the output
Fprintf(g) ==
  /\ goroutines[g].pc = "write"
  /\ output' = Append(output, goroutines[g].buf[goroutines[g].written + 1])
  /\ goroutines' =
       [goroutines EXCEPT
          ![g].written = @ + 1,
          ![g].pc = IF goroutines[g].written + 1 = Len(goroutines[g].buf)
                      THEN "unlock" ELSE "write"]
  /\ UNCHANGED <<level, colors, mu>>
  /\ UNCHANGED <<pc, file, parsed, records, window, summary, call>>
  /\ UNCHANGED diaryVars

\* l.level = level of SetLevel
AssignLevel(g) ==
  /\ goroutines[g].pc = "assign"
  /\ level' = goroutines[g].level
  /\ goroutines' = [goroutines EXCEPT ![g].pc = "unlock"]
  /\ UNCHANGED <<colors, output, mu>>
  /\ UNCHANGED <<pc, file, parsed, records, window, summary, call>>
  /\ UNCHANGED diaryVars

\* the deferred l.Unlock() of goroutine g, and the return of its call
Unlock(g) ==
  /\ goroutines[g].pc = "unlock"
  /\ mu' = None
  /\ goroutines' = [goroutines EXCEPT ![g] = Idle(@.ops)]
  /\ UNCHANGED <<level, colors, output>>
  /\ UNCHANGED <<pc, file, parsed, records, window, summary, call>>
  /\ UNCHANGED diaryVars

LoggerNext ==
  \/ \E g \in Goroutines : Log(g)
  \/ \E g \in Goroutines : SetLevel(g)
  \/ \E g \in Goroutines : Lock(g)
  \/ \E g \in Goroutines : Fprintf(g)
  \/ \E g \in Goroutines : AssignLevel(g)
  \/ \E g \in Goroutines : Unlock(g)

LoggerSpec == LoggerInit /\ [][LoggerNext]_vars

(***************************************************************************)
(* Properties.  The calendar day and the time of day of a time are taken   *)
(* here by division, not by the calendar operators of the model.           *)
(***************************************************************************)
dayOf(t) == t \div secondsPerDay
secOfDay(t) == t % secondsPerDay

RECURSIVE SumOver(_, _)
\* the sum of f[i] for i in the finite set S
SumOver(f, S) ==
  IF S = {} THEN 0
  ELSE LET i == CHOOSE k \in S : TRUE IN f[i] + SumOver(f, S \ {i})

\* the records whose calendar day lies in the window's calendar days
InWindowDays ==
  {i \in DOMAIN records :
     /\ dayOf(records[i].Date) >= dayOf(window.start)
     /\ dayOf(records[i].Date) <= dayOf(window.end)}

\* the records whose day start lies between the two instants of the window
InWindowInstants ==
  {i \in DOMAIN records :
     /\ dayOf(records[i].Date) * secondsPerDay >= window.start
     /\ dayOf(records[i].Date) * secondsPerDay <= window.end}

\* what each record contributes to the sum
Contribution ==
  [i \in DOMAIN records |->
     IF records[i].Normal THEN records[i].Duration ELSE 9 * 3600]

\* C1: the aggregator counts exactly the records whose calendar day is on
\* or after the calendar day of start and on or before the calendar day of
\* end, whatever time of day start and end carry.
C1_SelectsByCalendarDay ==
  pc = "aggregated" => summary.count = Cardinality(InWindowDays)

C3_TestExpectations ==
  (pc = "aggregated" /\ records = TestRecords) =>
    /\ (window = [start |-> Jul(14), end |-> Jul(20)]) =>
         (summary.average = 7 * Hour + 48 * Minute /\ summary.count = 5)
    /\ (window = [start |-> Jul(15), end |-> Jul(16)]) =>
         (summary.average = 8 * Hour /\ summary.count = 2)

\* C4: the aggregator never succeeds with count 0: with no record in the
\* window it returns an error, and without an error count is at least 1.
C4_NoDataIsAnError ==
  pc = "aggregated" =>
    /\ (InWindowDays = {}) => summary.err # NoError
    /\ (summary.err = NoError) => summary.count >= 1
    /\ ~(summary.err = NoError /\ summary.count = 0)

\* records outside the window only, and an error
C4_Witness ==
  /\ pc = "aggregated"
  /\ records # <<>>
  /\ InWindowDays = {}
  /\ summary.err # NoError

\* the record a successful call of parseSingleRecord returned
IsParsedRecord ==
  /\ pc = "called"
  /\ call.fn = "parseSingleRecord"
  /\ call.ret.err = NoError

\* C5: every record parseSingleRecord returns without error has
\* End >= Start, Duration = End - Start and Duration >= 0, also for time
\* components outside their conventional ranges.
C5_DurationNonNegative ==
  IsParsedRecord =>
    /\ call.ret.rec.End >= call.ret.rec.Start
    /\ call.ret.rec.Duration = call.ret.rec.End - call.ret.rec.Start
    /\ call.ret.rec.Duration >= 0

\* the three integers of a time string that parses
Component(timeStr, k) == Atoi(Split(timeStr, ":")[k]).val

\* C6: parseTimeOnDate(d, "H:M:S") is midnight of d plus H hours plus M
\* minutes plus S seconds; overflow carries and is never clamped: on
\* 2025-07-16, 25:30:00 is 01:30:00 of the 17th, 09:70:00 is 10:10:00 and
\* 09:30:70 is 09:31:10.
C6_TimeIsOffsetFromMidnight ==
  (pc = "called" /\ call.fn = "parseTimeOnDate" /\ call.ret.err = NoError) =>
    /\ call.ret.val = dayOf(call.date) * secondsPerDay
                        + Component(call.timeStr, 1) * 3600
                        + Component(call.timeStr, 2) * 60
                        + Component(call.timeStr, 3)
    /\ (call.date = Jul(16) /\ call.timeStr = <<"2", "5", ":", "3", "0", ":", "0", "0">>)
         => call.ret.val = GoDate(2025, 7, 17, 1, 30, 0)
    /\ (call.date = Jul(16) /\ call.timeStr = <<"0", "9", ":", "7", "0", ":", "0", "0">>)
         => call.ret.val = GoDate(2025, 7, 16, 10, 10, 0)
    /\ (call.date = Jul(16) /\ call.timeStr = <<"0", "9", ":", "3", "0", ":", "7", "0">>)
         => call.ret.val = GoDate(2025, 7, 16, 9, 31, 10)

\* 25:30:00 on 2025-07-16 parsed to 01:30:00 of the next day
C6_Witness ==
  /\ pc = "called"
  /\ call.fn = "parseTimeOnDate"
  /\ call.date = Jul(16)
  /\ call.timeStr = <<"2", "5", ":", "3", "0", ":", "0", "0">>
  /\ call.ret.err = NoError
  /\ call.ret.val = Jul(16) + 24 * 3600 + 3600 + 30 * 60

\* the date and the two times of a call of parseSingleRecord, as parsed
ParsedDate == ParseDate(Fields(call.dateStr)[1]).val
ParsedStart == parseTimeOnDate(ParsedDate, call.startStr).val
ParsedEnd == parseTimeOnDate(ParsedDate, call.endStr).val

\* C7: when the parsed end is before the parsed start, End is the parsed end
\* plus exactly 24 hours, and Start and Date are as parsed; otherwise End is
\* the parsed end; Duration is computed after the correction.  2025-07-16
\* with 22:00:00 and 06:00:00 gives Start 22:00:00 of the 16th, End 06:00:00
\* of the 17th and Duration 8h.
C7_OvernightCorrection ==
  IsParsedRecord =>
    /\ call.ret.rec.Date = ParsedDate
    /\ call.ret.rec.Start = ParsedStart
    /\ (ParsedEnd < ParsedStart) => call.ret.rec.End = ParsedEnd + 24 * 3600
    /\ (ParsedEnd >= ParsedStart) => call.ret.rec.End = ParsedEnd
    /\ call.ret.rec.Duration = call.ret.rec.End - ParsedStart
    /\ ( /\ call.dateStr = <<"2", "0", "2", "5", "-", "0", "7", "-", "1", "6">>
         /\ call.startStr = <<"2", "2", ":", "0", "0", ":", "0", "0">>
         /\ call.endStr = <<"0", "6", ":", "0", "0", ":", "0", "0">> )
       => call.ret.rec = [Date |-> Jul(16),
                          Start |-> GoDate(2025, 7, 16, 22, 0, 0),
                          End |-> GoDate(2025, 7, 17, 6, 0, 0),
                          Duration |-> 8 * 3600,
                          Normal |-> FALSE]

\* the overnight example: an end before the start, moved by 24 hours
C7_Witness ==
  /\ IsParsedRecord
  /\ call.startStr = <<"2", "2", ":", "0", "0", ":", "0", "0">>
  /\ call.endStr = <<"0", "6", ":", "0", "0", ":", "0", "0">>
  /\ ParsedEnd < ParsedStart
  /\ call.ret.rec.End = ParsedEnd + 24 * 3600
  /\ call.ret.rec.Duration = 8 * 3600

\* the three clauses of the leave rule, on times of day
LeaveRule(start, end) ==
  \/ secOfDay(start) > 12 * 3600
  \/ secOfDay(end) < 17 * 3600
  \/ end - start < 9 * 3600

\* C8: hasLeave(start, end) is true iff start is strictly after 12:00:00 of
\* its day, or end is strictly before 17:00:00 of its day, or end - start is
\* less than 9 hours; and Record.Normal is the negation of hasLeave on Start
\* and the overnight-corrected End.
C8_LeaveRule ==
  /\ (pc = "called" /\ call.fn = "hasLeave") =>
       (call.ret <=> LeaveRule(call.start, call.end))
  /\ IsParsedRecord =>
       (call.ret.rec.Normal <=> ~LeaveRule(call.ret.rec.Start, call.ret.rec.End))

\* a start of exactly 12:00:00 with a duration of exactly 9h is no leave
C8_Witness ==
  /\ pc = "called"
  /\ call.fn = "hasLeave"
  /\ secOfDay(call.start) = 12 * 3600
  /\ call.end - call.start = 9 * 3600
  /\ call.ret = FALSE

\* the rows of the file, and the data rows that are invalid by themselves
FileRows == [i \in 1..Len(file.lines) |-> Split(file.lines[i], ",")]
FailingRows ==
  {i \in 2..Len(FileRows) :
     \/ Len(FileRows[i]) # 3
     \/ parseSingleRecord(FileRows[i][1], FileRows[i][2], FileRows[i][3]).err # NoError}

\* C9: ParseRecordsFromFile fails as a whole and returns no records when the
\* file has fewer than 2 rows or a data row has not exactly 3 columns or
\* fails to parse, and the error names the 1-based index of the first such
\* row in file order.
C9_FirstFailingRow ==
  (pc \in {"parsed", "failed"} /\ file.exists
     /\ (Len(FileRows) < 2 \/ FailingRows # {})) =>
    /\ parsed.err # NoError
    /\ parsed.records = <<>>
    /\ (Len(FileRows) >= 2) =>
         parsed.err.row = CHOOSE i \in FailingRows : \A j \in FailingRows : i <= j

\* C10: a successful ParseRecordsFromFile returns one record per data row,
\* in file order, and none for the header row.
C10_OneRecordPerDataRow ==
  pc = "parsed" =>
    /\ parsed.err = NoError
    /\ Len(parsed.records) = Len(file.lines) - 1
    /\ \A i \in 1..Len(parsed.records) :
         parsed.records[i] =
           parseSingleRecord(FileRows[i + 1][1], FileRows[i + 1][2],
                             FileRows[i + 1][3]).rec

\* a header and two data rows of different days, parsed in order
C10_Witness ==
  /\ pc = "parsed"
  /\ Len(file.lines) = 3
  /\ Len(parsed.records) = 2
  /\ parsed.records[1].Date = Jul(16)
  /\ parsed.records[2].Date = Jul(17)

\* the first whitespace-delimited token of a string that has one
FirstToken(s) ==
  LET a == CHOOSE i \in 1..Len(s) : s[i] # " " /\ \A j \in 1..(i - 1) : s[j] = " "
      b == CHOOSE i \in a..Len(s) :
             /\ \A j \in a..i : s[j] # " "
             /\ (i = Len(s) \/ s[i + 1] = " ")
  IN SubSeq(s, a, b)

\* a string of the form YYYY-MM-DD that names a day of the calendar
IsStrictDate(s) ==
  /\ Len(s) = 10
  /\ s[5] = "-" /\ s[8] = "-"
  /\ \A i \in {1, 2, 3, 4, 6, 7, 9, 10} : s[i] \in Digits
  /\ LET y == 1000 * digitVal(s[1]) + 100 * digitVal(s[2])
                + 10 * digitVal(s[3]) + digitVal(s[4])
         m == 10 * digitVal(s[6]) + digitVal(s[7])
         d == 10 * digitVal(s[9]) + digitVal(s[10])
         leap == y % 4 = 0 /\ (y % 100 # 0 \/ y % 400 = 0)
     IN /\ m >= 1 /\ m <= 12 /\ d >= 1
        /\ d <= (IF m = 2 THEN (IF leap THEN 29 ELSE 28)
                 ELSE IF m \in {4, 6, 9, 11} THEN 30 ELSE 31)

\* a string strconv.Atoi accepts: an optional sign, then digits only
IsInteger(s) ==
  /\ Len(s) >= 1
  /\ \A i \in 2..Len(s) : s[i] \in Digits
  /\ IF s[1] \in {"+", "-"} THEN Len(s) >= 2 ELSE s[1] \in Digits

\* a string with exactly two colons whose three parts are integers
IsTimeOfThreeIntegers(s) ==
  LET colons == {i \in 1..Len(s) : s[i] = ":"}
  IN /\ Cardinality(colons) = 2
     /\ LET p == CHOOSE i \in colons : \A j \in colons : i <= j
            q == CHOOSE i \in colons : \A j \in colons : i >= j
        IN /\ IsInteger(SubSeq(s, 1, p - 1))
           /\ IsInteger(SubSeq(s, p + 1, q - 1))
           /\ IsInteger(SubSeq(s, q + 1, Len(s)))

\* the inputs parseSingleRecord accepts
AcceptedInput(dateStr, startStr, endStr) ==
  /\ \E i \in 1..Len(dateStr) : dateStr[i] # " "
  /\ IsStrictDate(FirstToken(dateStr))
  /\ IsTimeOfThreeIntegers(startStr)
  /\ IsTimeOfThreeIntegers(endStr)

\* C11: parseSingleRecord returns an error, and then the zero Record,
\* exactly when the date string has no token, or its first token is not a
\* strict YYYY-MM-DD date, or the start or the end string is not three
\* colon-separated integers; the tokens after the first are ignored, so
\* "2025-07-16 Wednesday" and "2025-07-16" give the same Date.
C11_ErrorExactlyOnMalformedInput ==
  (pc = "called" /\ call.fn = "parseSingleRecord") =>
    /\ (call.ret.err # NoError)
         <=> ~AcceptedInput(call.dateStr, call.startStr, call.endStr)
    /\ (call.ret.err # NoError) => call.ret.rec = ZeroRecord
    /\ (call.ret.err = NoError) =>
         call.ret.rec = parseSingleRecord(FirstToken(call.dateStr),
                                          call.startStr, call.endStr).rec
    /\ ( /\ call.ret.err = NoError
         /\ call.dateStr \in
              {<<"2", "0", "2", "5", "-", "0", "7", "-", "1", "6">>,
               <<"2", "0", "2", "5", "-", "0", "7", "-", "1", "6", " ", "W", "e", "d", "n", "e", "s", "d", "a", "y">>} )
       => call.ret.rec.Date = 20285 * 86400

\* a date with a day name parsed to the day of its first token
C11_Witness ==
  /\ pc = "called"
  /\ call.fn = "parseSingleRecord"
  /\ call.dateStr = <<"2", "0", "2", "5", "-", "0", "7", "-", "1", "6", " ", "W", "e", "d", "n", "e", "s", "d", "a", "y">>
  /\ call.ret.err = NoError
  /\ call.ret.rec.Date = Jul(16)

\* a four-part time string rejected
C11_WitnessRejected ==
  /\ pc = "called"
  /\ call.fn = "parseSingleRecord"
  /\ call.endStr = <<"0", "9", ":", "3", "0", ":", "0", "0", ":", "0", "0">>
  /\ call.ret.err # NoError
  /\ call.ret.rec = ZeroRecord

\* the file with its header row replaced by the line h
WithHeader(h) == [file EXCEPT !.lines[1] = h]

\* C12: the header row only counts toward the minimum row count: replacing
\* it by any other line, of any field count, leaves the outcome of
\* ParseRecordsFromFile unchanged; a file whose data rows are all valid
\* 3-column rows parses, and a file whose first invalid data row has 2
\* columns is rejected with the 3-column error.
C12_HeaderIsIgnored ==
  (pc \in {"parsed", "failed"} /\ file.exists /\ Len(file.lines) >= 2) =>
    /\ \A h \in Lines : ParseRecordsFromFile(WithHeader(h)) = parsed
    /\ (FailingRows = {}) => parsed.err = NoError
    /\ ( /\ FailingRows # {}
         /\ Len(FileRows[CHOOSE i \in FailingRows : \A j \in FailingRows : i <= j]) = 2 )
       => parsed.err.kind = "invalid CSV format"

\* a period function was called at call.now, window is what it handed to
\* the aggregator and call.ret the summary it returned
PeriodCall(fn) == pc = "summarized" /\ call.fn = fn

\* the number of records dated on the days first..last
RecordsOnDays(first, last) ==
  Cardinality({i \in DOMAIN records :
                 dayOf(records[i].Date) >= first /\ dayOf(records[i].Date) <= last})

\* the day number of the most recent Sunday on or before the day of t;
\* 2025-07-20 was a Sunday, as was 2023-01-01
SundayOnOrBefore(t) ==
  CHOOSE d \in (dayOf(t) - 6)..dayOf(t) : (d - dayOf(Jul(20))) % 7 = 0

\* C13: the last-week window starts at 00:00:00 of the Sunday 7 days before
\* this week's Sunday and ends at 23:59:59 of the Saturday before this
\* week's Sunday, for every weekday and time of day of now; it covers 7
\* calendar days and selects no record dated on or after this week's start.
C13_LastWeekWindow ==
  PeriodCall("calculateLastWeekAverage") =>
    /\ window.start = (SundayOnOrBefore(call.now) - 7) * 86400
    /\ window.end = SundayOnOrBefore(call.now) * 86400 - 1
    /\ dayOf(window.end) - dayOf(window.start) + 1 = 7
    /\ call.ret.Count = RecordsOnDays(SundayOnOrBefore(call.now) - 7,
                                      SundayOnOrBefore(call.now) - 1)

\* C14: the this-week window starts at 00:00:00 of the most recent Sunday on
\* or before now's day, 0 to 6 days before it, and ends at 23:59:59 of now's
\* day; it selects the records from that Sunday to now's day and none dated
\* later in the week.
C14_ThisWeekWindow ==
  PeriodCall("calculateThisWeekAverage") =>
    /\ window.start = SundayOnOrBefore(call.now) * 86400
    /\ window.end = dayOf(call.now) * 86400 + 86399
    /\ dayOf(call.now) - dayOf(window.start) \in 0..6
    /\ call.ret.Count = RecordsOnDays(SundayOnOrBefore(call.now), dayOf(call.now))
    /\ (call.ret.Error = NoError) <=> (call.ret.Count > 0)

\* on Wednesday 2025-07-16 the week starts on Sunday the 13th; of the
\* records of the 16th and the 17th only the first is counted
C14_Witness ==
  /\ PeriodCall("calculateThisWeekAverage")
  /\ call.now = GoDate(2025, 7, 16, 10, 0, 0)
  /\ Len(records) = 2
  /\ records[1].Date = Jul(16)
  /\ records[2].Date = Jul(17)
  /\ window = [start |-> GoDate(2025, 7, 13, 0, 0, 0),
               end |-> GoDate(2025, 7, 16, 23, 59, 59)]
  /\ call.ret.Count = 1

\* the year and the month of the calendar month before the month of t
PrevMonthYear(t) == IF Month(t) = 1 THEN Year(t) - 1 ELSE Year(t)
PrevMonth(t) == IF Month(t) = 1 THEN 12 ELSE Month(t) - 1

\* the last day of month m: 28 or 29, 30, 31
LastDayOf(m, y) ==
  CASE m \in {1, 3, 5, 7, 8, 10, 12} -> 31
    [] m \in {4, 6, 9, 11} -> 30
    [] m = 2 -> IF y % 4 = 0 /\ (y % 100 # 0 \/ y % 400 = 0) THEN 29 ELSE 28

\* C15: the last-month window starts at 00:00:00 on the 1st of the month
\* before now's month (December of the previous year in January) and ends
\* at 23:59:59 of that month's last day, one second before the 1st of now's
\* month, for previous months of 28, 29, 30 and 31 days.
C15_LastMonthWindow ==
  PeriodCall("calculateLastMonthAverage") =>
    /\ window.start = GoDate(PrevMonthYear(call.now), PrevMonth(call.now), 1, 0, 0, 0)
    /\ window.end =
         GoDate(PrevMonthYear(call.now), PrevMonth(call.now),
                LastDayOf(PrevMonth(call.now), PrevMonthYear(call.now)), 23, 59, 59)
    /\ window.end + 1 = GoDate(Year(call.now), Month(call.now), 1, 0, 0, 0)
    /\ dayOf(window.end) - dayOf(window.start) + 1 \in 28..31
    /\ (call.now = GoDate(2023, 1, 3, 10, 0, 0)) =>
         window = [start |-> GoDate(2022, 12, 1, 0, 0, 0),
                   end |-> GoDate(2022, 12, 31, 23, 59, 59)]
    /\ (call.now = GoDate(2025, 3, 31, 23, 59, 59)) =>
         window = [start |-> GoDate(2025, 2, 1, 0, 0, 0),
                   end |-> GoDate(2025, 2, 28, 23, 59, 59)]
    /\ (call.now = GoDate(2025, 5, 31, 8, 0, 0)) =>
         window = [start |-> GoDate(2025, 4, 1, 0, 0, 0),
                   end |-> GoDate(2025, 4, 30, 23, 59, 59)]

\* in March of a leap year the last month ends on February 29
C15_Witness ==
  /\ PeriodCall("calculateLastMonthAverage")
  /\ call.now = GoDate(2024, 3, 10, 12, 0, 0)
  /\ window = [start |-> GoDate(2024, 2, 1, 0, 0, 0),
               end |-> GoDate(2024, 2, 29, 23, 59, 59)]

\* the quarter of each month
QuarterOfMonth == <<1, 1, 1, 2, 2, 2, 3, 3, 3, 4, 4, 4>>

\* C16: getQuarter maps the months 1-3, 4-6, 7-9, 10-12 to the quarters 1,
\* 2, 3, 4, that is ((m-1)/3)+1; getQuarterRange(year, q) starts at 00:00:00
\* on the 1st of the quarter's first month and ends at 23:59:59 on the last
\* day of its third month (Mar 31, Jun 30, Sep 30, Dec 31) of the same
\* year, quarter 4 included.
C16_QuarterOfMonthAndRange ==
  /\ (pc = "called" /\ call.fn = "getQuarter") =>
       /\ call.ret \in 1..4
       /\ call.ret = ((Month(call.t) - 1) \div 3) + 1
       /\ \A m \in 1..12 :
            (call.t = GoDate(2025, m, 15, 12, 0, 0)) => call.ret = QuarterOfMonth[m]
  /\ (pc = "called" /\ call.fn = "getQuarterRange") =>
       /\ call.ret.start = GoDate(call.year, 3 * call.quarter - 2, 1, 0, 0, 0)
       /\ call.ret.end =
            GoDate(call.year, 3 * call.quarter,
                   <<31, 30, 30, 31>>[call.quarter], 23, 59, 59)
       /\ Year(call.ret.end) = call.year

\* quarter 4 of 2025 ends on December 31 of 2025
C16_Witness ==
  /\ pc = "called"
  /\ call.fn = "getQuarterRange"
  /\ call.year = 2025
  /\ call.quarter = 4
  /\ call.ret = [start |-> GoDate(2025, 10, 1, 0, 0, 0),
                 end |-> GoDate(2025, 12, 31, 23, 59, 59)]

\* the quarter of t, and the year and the number of the quarter before it
QuarterOf(t) == QuarterOfMonth[Month(t)]
PrevQuarterYear(t) == IF QuarterOf(t) = 1 THEN Year(t) - 1 ELSE Year(t)
PrevQuarter(t) == IF QuarterOf(t) = 1 THEN 4 ELSE QuarterOf(t) - 1

\* C17: the last-quarter window is the whole quarter before now's quarter,
\* from 00:00:00 on its first day to 23:59:59 on its last day: quarter 4 of
\* the previous year when now is in quarter 1, else quarter q-1 of now's
\* year.
C17_LastQuarterWindow ==
  PeriodCall("calculateLastQuarterAverage") =>
    /\ window.start =
         GoDate(PrevQuarterYear(call.now), 3 * PrevQuarter(call.now) - 2, 1, 0, 0, 0)
    /\ window.end =
         GoDate(PrevQuarterYear(call.now), 3 * PrevQuarter(call.now),
                <<31, 30, 30, 31>>[PrevQuarter(call.now)], 23, 59, 59)
    /\ (QuarterOf(call.now) = 1) =>
         /\ window.start = GoDate(Year(call.now) - 1, 10, 1, 0, 0, 0)
         /\ window.end = GoDate(Year(call.now) - 1, 12, 31, 23, 59, 59)
    /\ call.ret.Count = RecordsOnDays(dayOf(window.start), dayOf(window.end))

\* in February 2023 the last quarter is October 1 to December 31 of 2022 and
\* counts the record of 2022-12-31, not the one of 2023-01-01
C17_Witness ==
  /\ PeriodCall("calculateLastQuarterAverage")
  /\ call.now = GoDate(2023, 2, 14, 7, 0, 0)
  /\ window = [start |-> GoDate(2022, 10, 1, 0, 0, 0),
               end |-> GoDate(2022, 12, 31, 23, 59, 59)]
  /\ Len(records) = 2
  /\ records[1].Date = GoDate(2022, 12, 31, 0, 0, 0)
  /\ records[2].Date = GoDate(2023, 1, 1, 0, 0, 0)
  /\ call.ret.Count = 1

\* the day number of the last day of the quarter of t
QuarterLastDay(t) ==
  dayOf(GoDate(Year(t), 3 * QuarterOf(t), <<31, 30, 30, 31>>[QuarterOf(t)], 0, 0, 0))

\* C18: the this-quarter window starts at 00:00:00 on the 1st of the first
\* month of now's quarter (Jan, Apr, Jul or Oct) and ends at 23:59:59 of the
\* earlier of now's day and the quarter's last day; records of the quarter
\* dated after now's day are not selected.
C18_ThisQuarterWindow ==
  PeriodCall("calculateThisQuarterAverage") =>
    /\ window.start = GoDate(Year(call.now), 3 * QuarterOf(call.now) - 2, 1, 0, 0, 0)
    /\ Month(window.start) \in {1, 4, 7, 10}
    /\ window.end =
         (IF dayOf(call.now) < QuarterLastDay(call.now)
            THEN dayOf(call.now) ELSE QuarterLastDay(call.now)) * 86400 + 86399
    /\ call.ret.Count = RecordsOnDays(dayOf(window.start), dayOf(call.now))

\* on 2025-07-16 the quarter runs from July 1 to the 16th; the record of the
\* 17th is not counted
C18_Witness ==
  /\ PeriodCall("calculateThisQuarterAverage")
  /\ call.now = GoDate(2025, 7, 16, 10, 0, 0)
  /\ window = [start |-> GoDate(2025, 7, 1, 0, 0, 0),
               end |-> GoDate(2025, 7, 16, 23, 59, 59)]
  /\ Len(records) = 2
  /\ records[1].Date = Jul(16)
  /\ records[2].Date = Jul(17)
  /\ call.ret.Count = 1

\* C19: the last-year window is Jan 1 00:00:00 to Dec 31 23:59:59 of
\* now.year - 1 and the this-year window is Jan 1 00:00:00 of now.year to
\* 23:59:59 of now's day; a record dated Dec 31 of the previous year is
\* counted by last-year and not by this-year, a record dated Jan 1 of now's
\* year by this-year and not by last-year.
C19_YearWindows ==
  /\ PeriodCall("calculateLastYearAverage") =>
       /\ window = [start |-> GoDate(Year(call.now) - 1, 1, 1, 0, 0, 0),
                    end |-> GoDate(Year(call.now) - 1, 12, 31, 23, 59, 59)]
       /\ window.end + 1 = GoDate(Year(call.now), 1, 1, 0, 0, 0)
       /\ call.ret.Count =
            RecordsOnDays(dayOf(GoDate(Year(call.now) - 1, 1, 1, 0, 0, 0)),
                          dayOf(GoDate(Year(call.now) - 1, 12, 31, 0, 0, 0)))
  /\ PeriodCall("calculateThisYearAverage") =>
       /\ window = [start |-> GoDate(Year(call.now), 1, 1, 0, 0, 0),
                    end |-> dayOf(call.now) * 86400 + 86399]
       /\ call.ret.Count =
            RecordsOnDays(dayOf(GoDate(Year(call.now), 1, 1, 0, 0, 0)),
                          dayOf(call.now))

\* at the first second of 2023 the last year counts the record of
\* 2022-12-31 and not the one of 2023-01-01
C19_Witness ==
  /\ PeriodCall("calculateLastYearAverage")
  /\ call.now = GoDate(2023, 1, 1, 0, 0, 0)
  /\ Len(records) = 2
  /\ records[1].Date = GoDate(2022, 12, 31, 0, 0, 0)
  /\ records[2].Date = GoDate(2023, 1, 1, 0, 0, 0)
  /\ window = [start |-> GoDate(2022, 1, 1, 0, 0, 0),
               end |-> GoDate(2022, 12, 31, 23, 59, 59)]
  /\ call.ret.Count = 1

\* at the first second of 2023 the this year counts the record of
\* 2023-01-01 and not the one of 2022-12-31
C19_WitnessThisYear ==
  /\ PeriodCall("calculateThisYearAverage")
  /\ call.now = GoDate(2023, 1, 1, 0, 0, 0)
  /\ Len(records) = 2
  /\ records[1].Date = GoDate(2022, 12, 31, 0, 0, 0)
  /\ records[2].Date = GoDate(2023, 1, 1, 0, 0, 0)
  /\ call.ret.Count = 1

\* the aggregation over the one-day window of the target date
DayAggregate ==
  CalculateAverageForRecords(records, dayOf(call.now) * 86400,
                             dayOf(call.now) * 86400 + 86399)

\* C20: the Day summary equals the aggregation over the one-day window
\* [date 00:00:00, date 23:59:59]: the same average, count and error or
\* not; a leave day is reported with the 9h substitute and several records
\* of the target date are all counted.
C20_DayIsOneDayAggregate ==
  PeriodCall("calculateDayDuration") =>
    /\ call.ret.Average = DayAggregate.average
    /\ call.ret.Count = DayAggregate.count
    /\ (call.ret.Error = NoError) <=> (DayAggregate.err = NoError)

(***************************************************************************)
(* utils.FormatDuration.                                                   *)
(***************************************************************************)
Abs(n) == IF n < 0 THEN 0 - n ELSE n

\* the state after FormatDuration(call.d) returned call.ret
FormatCall == pc = "called" /\ call.fn = "FormatDuration"

\* where the one "h" of a formatted duration stands
HPos(s) == CHOOSE i \in 1..Len(s) : s[i] = "h"

\* the hour field: what stands before the "h"
HourField(s) == SubSeq(s, 1, HPos(s) - 1)

\* the minute field: what stands between "h " and the closing "m"
MinuteField(s) == SubSeq(s, HPos(s) + 2, Len(s) - 1)

\* a field of width 2 or more: spaces, then a decimal number in its
\* shortest form, and no space more than the width asks for
IsRightAligned(f) ==
  /\ Len(f) >= 2
  /\ f[Len(f)] # " "
  /\ Len(f) > 2 => f[1] # " "
  /\ \A i \in 1..(Len(f) - 1) : f[i] # " " => f[i + 1] # " "
  /\ IsInteger(FirstToken(f))
  /\ FirstToken(f)[1] # "+"

\* the number a field shows
FieldValue(f) == Atoi(FirstToken(f)).val

\* q is a / b truncated toward zero, for b > 0
IsTruncatedQuotient(q, a, b) ==
  /\ q > 0 => a > 0
  /\ q < 0 => a < 0
  /\ Abs(q) * b <= Abs(a)
  /\ Abs(a) < (Abs(q) + 1) * b

\* the parts of the description that do not speak of the minus signs: the
\* shape "<hours>h <minutes>m", both fields right-aligned in width 2, the
\* hours truncated toward zero, the minutes below 60 with the sign of d,
\* hours * 60 + minutes the whole minutes of d, and the strings of the tests
FormatsHoursAndMinutes(d, s) ==
  /\ Cardinality({i \in 1..Len(s) : s[i] = "h"}) = 1
  /\ Len(s) >= HPos(s) + 3
  /\ s[HPos(s) + 1] = " "
  /\ s[Len(s)] = "m"
  /\ IsRightAligned(HourField(s))
  /\ IsRightAligned(MinuteField(s))
  /\ IsTruncatedQuotient(FieldValue(HourField(s)), d, Hour)
  /\ Abs(FieldValue(MinuteField(s))) < 60
  /\ FieldValue(MinuteField(s)) > 0 => d > 0
  /\ FieldValue(MinuteField(s)) < 0 => d < 0
  /\ IsTruncatedQuotient(
       FieldValue(HourField(s)) * 60 + FieldValue(MinuteField(s)), d, Minute)
  /\ d = 0 => s = <<" ", "0", "h", " ", " ", "0", "m">>
  /\ d = Hour + 30 * Minute => s = <<" ", "1", "h", " ", "3", "0", "m">>
  /\ d = 23 * Hour + 59 * Minute => s = <<"2", "3", "h", " ", "5", "9", "m">>
  /\ d = 0 - (Hour + 30 * Minute)
       => s = <<"-", "1", "h", " ", "-", "3", "0", "m">>

\* a field shows a minus sign
HasMinus(f) == FirstToken(f)[1] = "-"

\* C23 as stated: FormatDuration(d) is "<hours>h <minutes>m", hours and
\* minutes truncated toward zero as above, and for d < 0 both fields carry
\* their own minus sign.
C23_BothFieldsSignedWhenNegative ==
  FormatCall =>
    /\ FormatsHoursAndMinutes(call.d, call.ret)
    /\ call.d < 0 =>
         HasMinus(HourField(call.ret)) /\ HasMinus(MinuteField(call.ret))

\* C23, amended: FormatDuration(d) is "<hours>h <minutes>m", hours and
\* minutes truncated toward zero as above, and each field carries a minus
\* sign exactly when its own value is negative: for d < 0 a field that is
\* zero is shown as " 0" without a sign.
C23_EachFieldSignedByItsValue ==
  FormatCall =>
    /\ FormatsHoursAndMinutes(call.d, call.ret)
    /\ HasMinus(HourField(call.ret)) <=> FieldValue(HourField(call.ret)) < 0
    /\ HasMinus(MinuteField(call.ret)) <=> FieldValue(MinuteField(call.ret)) < 0

\* minus thirty minutes is shown with a zero hour field that has no sign
C23_Witness ==
  /\ FormatCall
  /\ call.d = 0 - 30 * Minute
  /\ call.ret = <<" ", "0", "h", " ", "-", "3", "0", "m">>

(***************************************************************************)
(* runWorktime as a whole.                                                 *)
(***************************************************************************)
\* the state after runWorktime returned
RunCall == pc = "done" /\ call.fn = "runWorktime"

\* the i-th current period computed on its own
CurrentAlone(i) ==
  CASE i = 1 -> calculateDayDuration(records, call.now)
    [] i = 2 -> calculateThisWeekAverage(records, call.now)
    [] i = 3 -> calculateThisMonthAverage(records, call.now)
    [] i = 4 -> calculateThisQuarterAverage(records, call.now)
    [] i = 5 -> calculateThisYearAverage(records, call.now)

\* the i-th previous period computed on its own
PreviousAlone(i) ==
  CASE i = 1 -> calculateDayDuration(records, call.now - secondsPerDay)
    [] i = 2 -> calculateLastWeekAverage(records, call.now)
    [] i = 3 -> calculateLastMonthAverage(records, call.now)
    [] i = 4 -> calculateLastQuarterAverage(records, call.now)
    [] i = 5 -> calculateLastYearAverage(records, call.now)

\* the labels of the rows, in order
RowLabels ==
  <<<<"D", "a", "y">>, <<"W", "e", "e", "k">>, <<"M", "o", "n", "t", "h">>,
    <<"Q", "u", "a", "r", "t", "e", "r">>, <<"Y", "e", "a", "r">>>>

\* the characters from..to of a line without the spaces that pad them
CellAt(line, from, to) ==
  SubSeq(line, from,
         CHOOSE k \in from..to :
           line[k] # " " /\ \A j \in (k + 1)..to : line[j] = " ")

\* what the table shows for a summary
Shown(s) == IF s.Error # NoError THEN <<"-">> ELSE FormatDuration(s.Average)

\* the i-th row of the table without comparison: label, current cell
PlainRowShows(line, i) ==
  /\ FirstToken(line) = RowLabels[i]
  /\ line[Len(line)] = "\n"
  /\ line[9] = " "
  /\ CellAt(line, 10, Len(line) - 1) = Shown(CurrentAlone(i))

\* the i-th row of the table with comparison: label, current cell in
\* columns 10..21, previous cell from column 23
ComparisonRowShows(line, i) ==
  /\ FirstToken(line) = RowLabels[i]
  /\ line[Len(line)] = "\n"
  /\ line[9] = " " /\ line[22] = " "
  /\ CellAt(line, 10, 21) = Shown(CurrentAlone(i))
  /\ CellAt(line, 23, Len(line) - 1) = Shown(PreviousAlone(i))

\* C21: once the CSV has parsed, runWorktime evaluates the five periods
\* (and the five previous periods with the comparison flag) in the order
\* day, week, month, quarter, year whatever failed before, returns nil, and
\* the table has one row per period: "-" for a period whose aggregation
\* failed, and for every other period its own formatted average.
C21_EveryPeriodHasItsRow ==
  RunCall =>
    /\ call.ret = NoError
    /\ Len(call.comparisons) = 5
    /\ Len(call.output) = 6
    /\ \A i \in 1..5 :
         /\ call.comparisons[i].Current = CurrentAlone(i)
         /\ call.includeComparison =>
              call.comparisons[i].Previous = PreviousAlone(i)
         /\ IF call.includeComparison
              THEN ComparisonRowShows(call.output[i + 1], i)
              ELSE PlainRowShows(call.output[i + 1], i)

\* on 2023-02-14 the day, the week and the month have no record, the
\* quarter and the year have the one of 2023-01-01, the previous quarter
\* and the previous year the one of 2022-12-31
C21_Witness ==
  /\ RunCall
  /\ call.includeComparison
  /\ call.now = GoDate(2023, 2, 14, 7, 0, 0)
  /\ Len(records) = 2
  /\ \A i \in 1..3 : call.comparisons[i].Current.Error # NoError
  /\ \A i \in 4..5 : call.comparisons[i].Current.Error = NoError
  /\ \A i \in 4..5 : call.comparisons[i].Previous.Error = NoError
  /\ call.output[2] = <<"D", "a", "y", " ", " ", " ", " ", " ", " ", "-", " ", " ", " ", " ", " ", " ", " ", " ", " ", " ", " ", " ", "-", "\n">>

(***************************************************************************)
(* The error of an aggregation over a window without records.              *)
(***************************************************************************)
\* C22: when an aggregation fails because no record falls in the window,
\* the error identifies the window by its start and end dates: the same
\* records aggregated over a window with another start date or another end
\* date never fail with the same error value.
C22_NoDataErrorNamesItsWindow ==
  (pc = "aggregated" /\ summary.err # NoError) =>
    \A start \in WindowStarts, end \in WindowEnds :
      CalculateAverageForRecords(records, start, end).err = summary.err
        => /\ dayOf(start) = dayOf(window.start)
           /\ dayOf(end) = dayOf(window.end)

(***************************************************************************)
(* Consequences of the leave rule for parsed records.                      *)
(***************************************************************************)
\* the state after an aggregation over the records parsed from a file
ParsedAggregate == pc = "aggregated" /\ file # None

\* C26: for records produced by parseSingleRecord and a window that
\* selects at least one of them, the average is never below 9 hours: a
\* record is Normal only if its Duration is at least 9h, and a record that
\* is not Normal contributes exactly 9h.
C26_AverageAtLeastNineHours ==
  /\ (ParsedAggregate /\ summary.err = NoError) => summary.average >= 9 * 3600
  /\ ParsedAggregate => \A i \in 1..Len(records) :
       /\ records[i].Normal => records[i].Duration >= 9 * 3600
       /\ Contribution[i] >= 9 * 3600
  /\ IsParsedRecord =>
       /\ call.ret.rec.Normal => call.ret.rec.Duration >= 9 * 3600
       /\ ~call.ret.rec.Normal => durationForAverage(call.ret.rec) = 9 * 3600
       /\ call.ret.rec.Normal =>
            durationForAverage(call.ret.rec) = call.ret.rec.Duration

\* a leave day of 8h30m and a normal day of 10h30m average 9h45m
C26_Witness ==
  /\ ParsedAggregate
  /\ Len(records) = 2
  /\ records[1].Duration = 8 * 3600 + 1800 /\ ~records[1].Normal
  /\ records[2].Duration = 10 * 3600 + 1800 /\ records[2].Normal
  /\ summary.count = 2
  /\ summary.average = 9 * 3600 + 45 * 60

\* the components of a time string are in the conventional ranges
IsConventional(timeStr) ==
  /\ Component(timeStr, 1) \in 0..23
  /\ Component(timeStr, 2) \in 0..59
  /\ Component(timeStr, 3) \in 0..59

\* a record whose End was moved by the overnight correction, parsed from
\* conventional start and end strings
IsOvernightRecord ==
  /\ IsParsedRecord
  /\ IsConventional(call.startStr)
  /\ IsConventional(call.endStr)
  /\ ParsedEnd < ParsedStart

\* C27: a record whose End was moved by the overnight correction, parsed
\* from start and end strings with hour 0..23 and minute and second 0..59,
\* has Normal false: its end time of day is before its start time of day,
\* so the start is after 12:00:00 or the end is before 17:00:00 of its own
\* day; it contributes 9h to an average, never its recorded Duration.
C27_OvernightIsLeave ==
  IsOvernightRecord =>
    /\ call.ret.rec.End = ParsedEnd + 24 * 3600
    /\ secOfDay(call.ret.rec.End) < secOfDay(call.ret.rec.Start)
    /\ \/ secOfDay(call.ret.rec.Start) > 12 * 3600
       \/ secOfDay(call.ret.rec.End) < 17 * 3600
    /\ call.ret.rec.Normal = FALSE
    /\ durationForAverage(call.ret.rec) = 9 * 3600

\* 08:00:00 to 06:00:00 of the next day: 22 hours on record, a morning
\* start, and still a leave day
C27_Witness ==
  /\ IsOvernightRecord
  /\ call.startStr = <<"0", "8", ":", "0", "0", ":", "0", "0">>
  /\ call.endStr = <<"0", "6", ":", "0", "0", ":", "0", "0">>
  /\ call.ret.rec.Duration = 22 * 3600
  /\ call.ret.rec.Normal = FALSE

(***************************************************************************)
(* The windows of one run compared with each other.                        *)
(***************************************************************************)
\* the indices of the records a window selects
SelectedBy(range) ==
  {i \in 1..Len(records) : selected(records[i], range.start, range.end)}

\* range a lies within range b
Within(a, b) == b.start <= a.start /\ a.end <= b.end

\* C28: for every record list and every now the current windows are
\* nested: a record selected for this-month is selected for this-quarter
\* and a record selected for this-quarter is selected for this-year, so
\* count(this-month) <= count(this-quarter) <= count(this-year), and a
\* no-data error for this-year implies one for this-quarter and this-month.
C28_CurrentWindowsNested ==
  RunCall =>
    /\ Within(thisMonthRange(call.now), thisQuarterRange(call.now))
    /\ Within(thisQuarterRange(call.now), thisYearRange(call.now))
    /\ SelectedBy(thisMonthRange(call.now))
         \subseteq SelectedBy(thisQuarterRange(call.now))
    /\ SelectedBy(thisQuarterRange(call.now))
         \subseteq SelectedBy(thisYearRange(call.now))
    /\ call.comparisons[3].Current.Count <= call.comparisons[4].Current.Count
    /\ call.comparisons[4].Current.Count <= call.comparisons[5].Current.Count
    /\ call.comparisons[5].Current.Error # NoError
         => call.comparisons[4].Current.Error # NoError
    /\ call.comparisons[4].Current.Error # NoError
         => call.comparisons[3].Current.Error # NoError

\* on 2023-02-14 the record of 2023-01-01 is in the quarter and the year
\* and not in the month
C28_Witness ==
  /\ RunCall
  /\ call.now = GoDate(2023, 2, 14, 7, 0, 0)
  /\ call.comparisons[3].Current.Count = 0
  /\ call.comparisons[3].Current.Error # NoError
  /\ call.comparisons[4].Current.Count = 1
  /\ call.comparisons[5].Current.Count = 1

\* the window of the current period that follows a previous period
CurrentRangeAfter(fn) ==
  CASE fn = "calculateLastMonthAverage" -> thisMonthRange(call.now)
    [] fn = "calculateLastQuarterAverage" -> thisQuarterRange(call.now)
    [] fn = "calculateLastYearAverage" -> thisYearRange(call.now)

LastOfMonthQuarterYear ==
  {"calculateLastMonthAverage", "calculateLastQuarterAverage",
   "calculateLastYearAverage"}

\* C29: for the month, the quarter and the year and every now, the
\* previous window and the current window are disjoint and adjacent: no
\* record is selected by both, and the previous window ends exactly one
\* second before the current window starts, so that no calendar day lies
\* between them.
C29_PreviousMeetsCurrent ==
  /\ (pc = "summarized" /\ call.fn \in LastOfMonthQuarterYear) =>
       /\ window.end + 1 = CurrentRangeAfter(call.fn).start
       /\ secOfDay(window.end) = 86399
       /\ dayOf(window.end) + 1 = dayOf(CurrentRangeAfter(call.fn).start)
       /\ SelectedBy(window) \cap SelectedBy(CurrentRangeAfter(call.fn)) = {}
  /\ (RunCall /\ call.includeComparison) => \A i \in 3..5 :
       call.comparisons[i].Previous.Count + call.comparisons[i].Current.Count
         <= Len(records)

\* at the first second of 2023 the record of 2022-12-31 is in the previous
\* year and the one of 2023-01-01 in the current year
C29_Witness ==
  /\ PeriodCall("calculateLastYearAverage")
  /\ call.now = GoDate(2023, 1, 1, 0, 0, 0)
  /\ Len(records) = 2
  /\ SelectedBy(window) = {1}
  /\ SelectedBy(thisYearRange(call.now)) = {2}
  /\ window.end = GoDate(2022, 12, 31, 23, 59, 59)

(***************************************************************************)
(* The diary file of one date.                                             *)
(***************************************************************************)
\* the file of 2023-12-25 and the text a new file of that date starts with
DayFile == <<"2", "0", "2", "3", "-", "1", "2", "-", "2", "5", ".", "m", "d">>
DayTemplate ==
  <<"#", " ", "D", "i", "a", "r", "y", " ", "-", " ", "2", "0", "2",
   "3", "-", "1", "2", "-", "2", "5", "\n", "\n", "#", "#", " ", "M",
   "o", "r", "n", "i", "n", "g", " ", "T", "h", "o", "u", "g", "h",
   "t", "s", "\n", "\n", "\n", "#", "#", " ", "D", "a", "i", "l", "y",
   " ", "L", "o", "g", "\n", "\n", "\n", "#", "#", " ", "E", "v", "e",
   "n", "i", "n", "g", " ", "R", "e", "f", "l", "e", "c", "t", "i",
   "o", "n", "\n", "\n", "\n", "-", "-", "-", "\n">>

\* e is the entry of the call c: "\n**HH:MM** - ", the content, "\n", with
\* HH:MM the hour and minute of the call
IsEntryOf(e, c) ==
  /\ Len(e) = 14 + Len(c.content)
  /\ SubSeq(e, 1, 3) = <<"\n", "*", "*">>
  /\ \A i \in {4, 5, 7, 8} : e[i] \in Digits
  /\ 10 * digitVal(e[4]) + digitVal(e[5]) = secOfDay(c.now) \div 3600
  /\ e[6] = ":"
  /\ 10 * digitVal(e[7]) + digitVal(e[8]) = (secOfDay(c.now) \div 60) % 60
  /\ SubSeq(e, 9, 13) = <<"*", "*", " ", "-", " ">>
  /\ SubSeq(e, 14, Len(e) - 1) = c.content
  /\ e[Len(e)] = "\n"

RECURSIVE IsEntriesOf(_, _, _)
\* text is the entries of the calls cs[i], cs[i + 1], ... that have content,
\* one after the other in call order, and nothing else
IsEntriesOf(text, cs, i) ==
  IF i > Len(cs) THEN text = <<>>
  ELSE IF cs[i].content = <<>> THEN IsEntriesOf(text, cs, i + 1)
  ELSE /\ Len(text) >= 14 + Len(cs[i].content)
       /\ IsEntryOf(SubSeq(text, 1, 14 + Len(cs[i].content)), cs[i])
       /\ IsEntriesOf(SubSeq(text, 15 + Len(cs[i].content), Len(text)),
                      cs, i + 1)

\* what the file held before the first call appended to it: what it held
\* beforehand if os.Stat found it, a fresh template otherwise
InitialContent == IF calls[1].existed THEN Existing ELSE DayTemplate

C24_WitnessExisting ==
  /\ disk # None /\ disk.dir
  /\ Len(calls) = 2
  /\ calls[1].existed
  /\ calls[1].content = <<>>
  /\ calls[2].content = <<"b">>
  /\ SubSeq(disk.files[DayFile], 1, Len(Existing)) = Existing
  /\ Len(disk.files[DayFile]) = Len(Existing) + 15

(***************************************************************************)
(* The diary files of a range of dates.                                    *)
(***************************************************************************)
\* the state after FilterDiariesByDate(dir, call.start, call.end) returned
FilterCall == call # None /\ call.fn = "FilterDiariesByDate"

\* a name of the form YYYY-MM-DD.md whose date is a day of the calendar
IsDiaryName(n) ==
  /\ Len(n) = 13
  /\ SubSeq(n, 11, 13) = <<".", "m", "d">>
  /\ IsStrictDate(SubSeq(n, 1, 10))

\* the days from 1970-01-01 to a day of the calendar, by the Julian day number
DaysFromCivil(y, m, d) ==
  LET a  == (14 - m) \div 12
      yy == y + 4800 - a
      mm == m + 12 * a - 3
  IN d + (153 * mm + 2) \div 5 + 365 * yy + yy \div 4 - yy \div 100
       + yy \div 400 - 32045 - 2440588

\* the instant of the date of a diary name: 00:00:00 UTC of that day
NameDate(n) ==
  86400 * DaysFromCivil(1000 * digitVal(n[1]) + 100 * digitVal(n[2])
                          + 10 * digitVal(n[3]) + digitVal(n[4]),
                        10 * digitVal(n[6]) + digitVal(n[7]),
                        10 * digitVal(n[9]) + digitVal(n[10]))

\* the names of the directory
NamesOnDisk == IF disk.dir THEN DOMAIN disk.files ELSE {}

\* C25: FilterDiariesByDate(dir, start, end) returns, without an error and
\* each once, exactly the files named YYYY-MM-DD.md whose date d satisfies
\* start <= d <= end, both bounds included; the files of 12-24, 12-25 and
\* 12-26 are returned for 12-24 00:00:00 .. 12-26 23:59:59 and the one of
\* 2024-01-01 is not; a name that matches the pattern without being a date
\* is skipped.
C25_FilterReturnsFilesInRange ==
  FilterCall =>
    /\ call.ret.err = NoError
    /\ {call.ret.files[i] : i \in 1..Len(call.ret.files)}
         = {n \in NamesOnDisk :
              /\ IsDiaryName(n)
              /\ call.start <= NameDate(n)
              /\ NameDate(n) <= call.end}
    /\ \A i, j \in 1..Len(call.ret.files) :
         call.ret.files[i] = call.ret.files[j] => i = j
    /\ ( /\ <<"2", "0", "2", "3", "-", "1", "2", "-", "2", "4", ".", "m", "d">> \in NamesOnDisk
         /\ <<"2", "0", "2", "3", "-", "1", "2", "-", "2", "6", ".", "m", "d">> \in NamesOnDisk
         /\ <<"2", "0", "2", "4", "-", "0", "1", "-", "0", "1", ".", "m", "d">> \in NamesOnDisk
         /\ call.start = 86400 * 19715
         /\ call.end = 86400 * 19717 + 86399 )
       => call.ret.files = <<<<"2", "0", "2", "3", "-", "1", "2", "-", "2", "4", ".", "m", "d">>,
                              <<"2", "0", "2", "3", "-", "1", "2", "-", "2", "5", ".", "m", "d">>,
                              <<"2", "0", "2", "3", "-", "1", "2", "-", "2", "6", ".", "m", "d">>>>

\* every name in the directory, and a range whose two bounds are dates of
\* files: both files are returned, the names that are no dates are not
C25_Witness ==
  /\ FilterCall
  /\ Cardinality(NamesOnDisk) = 8
  /\ call.start = 86400 * 19715
  /\ call.end = 86400 * 19717
  /\ Len(call.ret.files) = 3
  /\ call.ret.files[1] = <<"2", "0", "2", "3", "-", "1", "2", "-", "2", "4", ".", "m", "d">>
  /\ call.ret.files[3] = <<"2", "0", "2", "3", "-", "1", "2", "-", "2", "6", ".", "m", "d">>

(***************************************************************************)
(* C30.  The Logger among concurrent callers.                              *)
(***************************************************************************)
\* goroutine g is in log, holds the mutex and has written bytes of its line
IsWriting(g) ==
  /\ goroutines[g].fn = "log"
  /\ mu = [kind |-> "locked", by |-> g]
  /\ goroutines[g].written > 0

\* every call of SetLevel made so far has returned
NoSetLevelUnderWay ==
  \A g \in DOMAIN goroutines : goroutines[g].fn # "SetLevel"

\* the lines a caller can write
PossibleLines ==
  {lineOf(colors, l, m) : l \in Levels, m \in Messages}

IsPrefixOf(p, s) ==
  /\ Len(p) <= Len(s)
  /\ SubSeq(s, 1, Len(p)) = p

\* text is whole lines, one after another
RECURSIVE IsWholeLines(_)
IsWholeLines(text) ==
  \/ text = <<>>
  \/ \E line \in PossibleLines :
       /\ IsPrefixOf(line, text)
       /\ IsWholeLines(SubSeq(text, Len(line) + 1, Len(text)))

\* what the goroutine that is writing has yet to write
Unwritten ==
  IF \E g \in DOMAIN goroutines : goroutines[g].pc = "write"
    THEN LET g == CHOOSE h \in DOMAIN goroutines : goroutines[h].pc = "write"
         IN SubSeq(goroutines[g].buf, goroutines[g].written + 1,
                   Len(goroutines[g].buf))
    ELSE <<>>

\* the bytes of two messages never interleave within a line: the output is
\* whole lines once the line under way is completed
LinesNeverInterleave ==
  IsWholeLines(output \o Unwritten)

\* C30: once the calls of SetLevel have returned, a message that is being
\* written to the output has a level at or above the level of the Logger at
\* that moment, and the bytes of two messages never interleave within a line
C30_WrittenOnlyAtOrAboveLevel ==
  /\ NoSetLevelUnderWay =>
       \A g \in DOMAIN goroutines :
         IsWriting(g) => goroutines[g].level >= level
  /\ LinesNeverInterleave

=============================================================================
